---- MODULE Spec2Model ----
(***************************************************************************)
(* The project-manifest maintenance scripts of the Billix repository.      *)
(*                                                                         *)
(* The manifest (project.pbxproj) is a text.  It is modelled as a sequence *)
(* of tokens: every token is a fixed piece of text that the scripts only   *)
(* ever match, insert or delete as a whole (a record line without its line *)
(* break, a section marker, a line break, an indentation run, a single     *)
(* bracket).  Offsets are 0-based token offsets, as Python's are 0-based   *)
(* character offsets; -1 is str.find's "not found".                        *)
(***************************************************************************)
EXTENDS Integers, Sequences, FiniteSets, TLC

(***************************************************************************)
(* Bounds of the model.                                                    *)
(***************************************************************************)
\* how many entries of missing_files the model keeps
NumFiles == 2
\* how many times uuid4 may return an identifier that is already in use
MaxCollisions == 1
\* how many times a script may be run in a row
MaxRuns == 2
\* pixels of an image
MaxPixels == 2
\* how many times a file may be in a manifest
MaxCopies == 3

(***************************************************************************)
(* Tokens.  k is the kind; id the identifier the text starts with; ref the *)
(* identifier after "fileRef = "; name the file or group name in the       *)
(* comment; full says that a PBXFileReference record carries the full path *)
(* (path = "Billix/.../X.swift"; sourceTree = SOURCE_ROOT).                *)
(***************************************************************************)
T(k) == [k |-> k, id |-> "", ref |-> "", name |-> "", full |-> FALSE]

\* "\n"
NL == T("NL")
\* "\t\t\t", the indentation in front of a closing bracket
IND == T("IND")
\* "(" , ")" , ";"
LP == T("LP")
RP == T("RP")
SEMI == T("SEMI")
\* "\t\t};" closing a group or build-phase block
END == T("END")

\* \t\t{id} /* {name} */ = {isa = PBXFileReference; lastKnownFileType = sourcecode.swift; path = {name}; sourceTree = "<group>"; };
FR(id, name) == [T("FR") EXCEPT !.id = id, !.name = name]
\* the same record after fix_file_paths: path = "{full path}"; sourceTree = SOURCE_ROOT;
FRfull(id, name) == [T("FR") EXCEPT !.id = id, !.name = name, !.full = TRUE]
\* \t\t{id} /* {name} in Sources */ = {isa = PBXBuildFile; fileRef = {ref} /* {name} */; };
BF(id, ref, name) == [T("BF") EXCEPT !.id = id, !.ref = ref, !.name = name]
\* \t\t\t\t{id} /* {name} */,
CH(id, name) == [T("CH") EXCEPT !.id = id, !.name = name]
\* \t\t\t\t{id} /* {name} in Sources */,
SF(id, name) == [T("SF") EXCEPT !.id = id, !.name = name]
\* \t\t{id} /* {name} */ = {
GH(id, name) == [T("GH") EXCEPT !.id = id, !.name = name]
\* \t\t\tname = {name};
NAMEATTR(name) == [T("NAMEATTR") EXCEPT !.name = name]
\* any other text without brackets or braces: the characters of id (an
\* identifier or nothing) followed by those of name
TXT(id, name) == [T("TXT") EXCEPT !.id = id, !.name = name]

\* a line: the token and its line break
Line(t) == <<t, NL>>

(***************************************************************************)
(* What a token's text contains.                                           *)
(***************************************************************************)
\* the 24-character identifier u occurs in the token
HasId(t, u) == u # "" /\ (t.id = u \/ t.ref = u)

\* the file name n occurs in the token
HasName(t, n) == n # "" /\ t.name = n /\ t.k \in {"FR", "BF", "CH", "SF", "TXT"}

\* the full path of file n occurs in the token
HasPath(t, n) == t.k = "FR" /\ t.full /\ t.name = n

\* "/* n */" occurs in the token ("/* n in Sources */" is another text)
HasComment(t, n) == n # "" /\ t.name = n /\ t.k \in {"FR", "BF", "CH", "GH"}

\* "PBXBuildFile", "PBXFileReference", "in Sources" occur in the token
HasPBXBuildFile(t) == t.k \in {"BF", "BeginBF", "EndBF"}
HasPBXFileReference(t) == t.k \in {"FR", "BeginFR", "EndFR"}
HasInSources(t) == t.k \in {"BF", "SF"}

\* net count of "(" minus ")" and of "{" minus "}" in the token
ParenDelta(t) == CASE t.k \in {"LP", "CO", "FO"} -> 1
                   [] t.k = "RP" -> -1
                   [] OTHER -> 0
BraceDelta(t) == CASE t.k = "GH" -> 1
                   [] t.k = "END" -> -1
                   [] OTHER -> 0
\* the token holds a "}"
HasCloseBrace(t) == t.k \in {"END", "FR", "BF"}

(***************************************************************************)
(* Python's str and list operations on token texts.                        *)
(***************************************************************************)
Min(S) == CHOOSE x \in S : \A y \in S : x <= y
Max(S) == CHOOSE x \in S : \A y \in S : x >= y

\* a slice bound as Python clamps it: negative counts from the end
Clamp(text, p) == IF p < 0 THEN (IF Len(text) + p < 0 THEN 0 ELSE Len(text) + p)
                  ELSE IF p > Len(text) THEN Len(text) ELSE p

\* text[:p] and text[p:]
Before(text, p) == SubSeq(text, 1, Clamp(text, p))
After(text, p) == SubSeq(text, Clamp(text, p) + 1, Len(text))

\* text[:p] + ins + text[p:]
Splice(text, p, ins) == Before(text, p) \o ins \o After(text, p)

\* text.find(<a token of kind k>, start)
FindKind(text, k, start) ==
    LET S == {p \in Clamp(text, start)..(Len(text) - 1) : text[p + 1].k = k}
    IN  IF S = {} THEN -1 ELSE Min(S)

\* text.find('\n', start)
FindNL(text, start) == FindKind(text, "NL", start)

\* text.find(');', start)
FindCloseSemi(text, start) ==
    LET S == {p \in Clamp(text, start)..(Len(text) - 2) :
                 text[p + 1].k = "RP" /\ text[p + 2].k = "SEMI"}
    IN  IF S = {} THEN -1 ELSE Min(S)

\* the concatenation of a sequence of texts: ''.join(parts)
RECURSIVE JoinRange(_, _, _)
JoinRange(parts, lo, hi) ==
    IF lo > hi THEN <<>>
    ELSE IF lo = hi THEN parts[lo]
    ELSE JoinRange(parts, lo, (lo + hi) \div 2) \o JoinRange(parts, (lo + hi) \div 2 + 1, hi)
Join(parts) == JoinRange(parts, 1, Len(parts))

\* the identifiers that occur in a text
IdsOf(text) == ({text[i].id : i \in 1..Len(text)} \cup {text[i].ref : i \in 1..Len(text)}) \ {""}

\* how many tokens of a text satisfy: kind k, about file n
CountKN(text, k, n) == Cardinality({i \in 1..Len(text) : text[i].k = k /\ text[i].name = n})

(***************************************************************************)
(* The manifests the scripts are run on.  An entry e = [name, ref, build,  *)
(* full] is a source file that is in the project: its PBXFileReference     *)
(* record e.ref, its PBXBuildFile record e.build, its line in a group's    *)
(* children list and its line in the Sources build phase.                  *)
(***************************************************************************)
Entry(name, ref, build, full) == [name |-> name, ref |-> ref, build |-> build, full |-> full]

\* the lines of a list of entries, one line per entry
BFLines(ents) == Join([i \in 1..Len(ents) |-> Line(BF(ents[i].build, ents[i].ref, ents[i].name))])
FRLines(ents) == Join([i \in 1..Len(ents) |->
                    Line(IF ents[i].full THEN FRfull(ents[i].ref, ents[i].name)
                                         ELSE FR(ents[i].ref, ents[i].name))])
CHLines(ents) == Join([i \in 1..Len(ents) |-> Line(CH(ents[i].ref, ents[i].name))])
SFLines(ents) == Join([i \in 1..Len(ents) |-> Line(SF(ents[i].build, ents[i].name))])

\* /* Begin PBXBuildFile section */ ... /* End PBXBuildFile section */
BuildFileSection(begin, end, ents) ==
    (IF begin THEN Line(T("BeginBF")) ELSE <<>>) \o BFLines(ents)
    \o (IF end THEN Line(T("EndBF")) ELSE <<>>)

\* /* Begin PBXFileReference section */ ... /* End PBXFileReference section */
FileRefSection(begin, end, ents) ==
    (IF begin THEN Line(T("BeginFR")) ELSE <<>>) \o FRLines(ents)
    \o (IF end THEN Line(T("EndFR")) ELSE <<>>)

\* a PBXGroup block; kids is the text between "children = (" and "\t\t\t);"
GroupBlock(gid, gname, hasChildren, kids) ==
    Line(GH(gid, gname)) \o Line(T("ISAG"))
    \o (IF hasChildren THEN Line(T("CO")) \o kids \o <<IND, RP, SEMI, NL>> ELSE <<>>)
    \o Line(NAMEATTR(gname)) \o Line(END)

\* the PBXSourcesBuildPhase section with its one build phase
SourcesSection(begin, hasFiles, pid, ents) ==
    (IF begin THEN Line(T("BeginSBP")) ELSE <<>>)
    \o Line(GH(pid, "Sources")) \o Line(T("ISAS"))
    \o (IF hasFiles THEN Line(T("FO")) \o SFLines(ents) \o <<IND, RP, SEMI, NL>> ELSE <<>>)
    \o Line(END) \o Line(T("EndSBP"))

\* identifiers of the manifest's own objects
ComponentsGroupId == "A4C6E83221EA5E2F1A2183B3"
ViewsGroupId == "A6FF822B2EDE3AD4008330C9"
SourcesPhaseId == "A6FF81F02EDE3A5F008330C9"

VARIABLES
    disk,      \* the file the scripts work on: the text of project.pbxproj
    disk0,     \* the text it had before any script ran
    pc,        \* per script: where its run stands
    content,   \* per script: the text it holds in memory
    loc,       \* per script: its other local variables
    hist,      \* the file operations so far: [s, op, text]
    drawn,     \* the identifiers uuid4 has returned so far
    ncoll,     \* how many of them were already in use when returned
    runs       \* per script: how many runs it has started

vars == <<disk, disk0, pc, content, loc, hist, drawn, ncoll, runs>>

Scripts == {"add_missing_files", "add_modals_to_project", "add_phase1_components",
            "clean_and_fix_project", "fix_file_paths", "add_rewards_hub_view",
            "remove_old_analysis_files", "remove_white_background",
            "add_ui_redesign_files", "remove_duplicate_files", "fix_all_duplicates",
            "remove_duplicate_refs", "fix_closing_syntax"}

(***************************************************************************)
(* uuid.uuid4().hex[:24].upper(): any 24-character identifier.  An         *)
(* identifier that is not in use is as good as any other, so the model     *)
(* draws the first unused one of UuidSeq; or, at most MaxCollisions times, *)
(* one that is in use already (in the manifest or drawn before).           *)
(***************************************************************************)
UuidSeq == <<"U01", "U02", "U03", "U04", "U05", "U06", "U07", "U08", "U09", "U10",
             "U11", "U12", "U13", "U14", "U15", "U16", "U17", "U18", "U19", "U20">>

InUse == IdsOf(disk0) \cup drawn

FreshUuid(used) == UuidSeq[Min({i \in 1..Len(UuidSeq) : UuidSeq[i] \notin used})]

\* the values one call of generate_uuid may return when `used` are in use and
\* n calls have returned a used one so far
generate_uuid(used, n) == {FreshUuid(used)} \cup (IF n < MaxCollisions THEN used ELSE {})

\* the collision count after a call returned u
Collided(used, n, u) == IF u \in used THEN n + 1 ELSE n

\* with open(project_path, 'r') as f: content = f.read()
ReadFile(s) ==
    /\ content' = [content EXCEPT ![s] = disk]
    /\ hist' = Append(hist, [s |-> s, op |-> "read", text |-> disk])

\* the write as open(project_path, 'a') would do it: behind what is there
WriteFileAppending(s) ==
    /\ disk' = disk \o content[s]
    /\ hist' = Append(hist, [s |-> s, op |-> "write", text |-> content[s]])

\* with open(project_path, 'w') as f: f.write(content)
WriteFile(s) ==
    /\ disk' = content[s]
    /\ hist' = Append(hist, [s |-> s, op |-> "write", text |-> content[s]])

\* the loop without the line that moves the position on: every entry goes
\* in at the same place, in front of the ones before it
RECURSIVE InsertEachAtStart(_, _, _)
InsertEachAtStart(text, pos, entries) ==
    IF entries = <<>> THEN text
    ELSE InsertEachAtStart(Splice(text, pos, Head(entries)), pos, Tail(entries))

\* for entry in entries: text = text[:pos] + entry + text[pos:]; pos += len(entry)
RECURSIVE InsertEach(_, _, _)
InsertEach(text, pos, entries) ==
    IF entries = <<>> THEN text
    ELSE InsertEach(Splice(text, pos, Head(entries)), pos + Len(Head(entries)), Tail(entries))

\* a script that is not part of the run at hand
Idle == [i |-> 0]

(***************************************************************************)
(* add_missing_files.py                                                    *)
(***************************************************************************)
\* missing_files (15 paths in the source; the model keeps these, in the
\* source's order); a file is named by the last component of its path
all_missing_files == <<"GeoGameView.swift", "ResultView.swift", "RewardsHubView.swift">>
missing_files == SubSeq(all_missing_files, 1, NumFiles)

AMF == "add_missing_files"

\* lines 40-49: the read and the empty lists
AMF_Read ==
    /\ pc[AMF] = "start"
    /\ ReadFile(AMF)
    /\ loc' = [loc EXCEPT ![AMF] = [i |-> 1, file_entries |-> <<>>,
                                    build_entries |-> <<>>, build_phase_entries |-> <<>>]]
    /\ pc' = [pc EXCEPT ![AMF] = "plan"]
    /\ runs' = [runs EXCEPT ![AMF] = @ + 1]
    /\ UNCHANGED <<disk, disk0, drawn, ncoll>>

\* lines 51-73: one iteration of the loop over missing_files
AMF_Plan ==
    /\ pc[AMF] = "plan"
    /\ loc[AMF].i <= Len(missing_files)
    /\ LET l == loc[AMF]
           filename == missing_files[l.i]
       IN  IF \E j \in 1..Len(content[AMF]) : HasPath(content[AMF][j], filename)
           THEN /\ loc' = [loc EXCEPT ![AMF].i = @ + 1]
                /\ UNCHANGED <<drawn, ncoll>>
           ELSE \E file_ref_id \in generate_uuid(InUse, ncoll) :
                \E build_file_id \in generate_uuid(InUse \cup {file_ref_id},
                                                   Collided(InUse, ncoll, file_ref_id)) :
                  /\ loc' = [loc EXCEPT ![AMF] =
                        [i |-> l.i + 1,
                         file_entries |-> Append(l.file_entries,
                             [file_ref_id |-> file_ref_id,
                              entry |-> FR(file_ref_id, filename),
                              file_path |-> filename]),
                         build_entries |-> Append(l.build_entries,
                             BF(build_file_id, file_ref_id, filename)),
                         build_phase_entries |-> Append(l.build_phase_entries,
                             SF(build_file_id, filename))]]
                  /\ drawn' = drawn \cup {file_ref_id, build_file_id}
                  /\ ncoll' = Collided(InUse \cup {file_ref_id},
                                       Collided(InUse, ncoll, file_ref_id), build_file_id)
    /\ UNCHANGED <<disk, disk0, pc, content, hist, runs>>

\* entry + '\n' for each entry of a list
WithNL(entries) == [i \in 1..Len(entries) |-> Line(entries[i])]

\* lines 75-96: nothing to add, or the PBXBuildFile insertion
AMF_InsertBuildFiles ==
    /\ pc[AMF] = "plan"
    /\ loc[AMF].i > Len(missing_files)
    /\ LET build_file_pos == FindKind(content[AMF], "BeginBF", 0)
           build_file_insert_pos == FindNL(content[AMF], build_file_pos) + 1
       IN  IF loc[AMF].file_entries = <<>> \/ build_file_pos = -1
           THEN /\ pc' = [pc EXCEPT ![AMF] = "done"]
                /\ UNCHANGED content
           ELSE /\ content' = [content EXCEPT ![AMF] =
                      InsertEach(@, build_file_insert_pos, WithNL(loc[AMF].build_entries))]
                /\ pc' = [pc EXCEPT ![AMF] = "refs"]
    /\ UNCHANGED <<disk, disk0, loc, hist, drawn, ncoll, runs>>

\* lines 98-108 without the return of line 102: the run goes on to the write
AMF_InsertFileRefsNoReturn ==
    /\ pc[AMF] = "refs"
    /\ LET file_ref_pos == FindKind(content[AMF], "BeginFR", 0)
           file_ref_insert_pos == FindNL(content[AMF], file_ref_pos) + 1
           entries == [i \in 1..Len(loc[AMF].file_entries) |-> loc[AMF].file_entries[i].entry]
       IN  IF file_ref_pos = -1
           THEN /\ pc' = [pc EXCEPT ![AMF] = "write"]
                /\ UNCHANGED content
           ELSE /\ content' = [content EXCEPT ![AMF] =
                      InsertEach(@, file_ref_insert_pos, WithNL(entries))]
                /\ pc' = [pc EXCEPT ![AMF] = "sources"]
    /\ UNCHANGED <<disk, disk0, loc, hist, drawn, ncoll, runs>>

\* lines 98-108: the PBXFileReference insertion
AMF_InsertFileRefs ==
    /\ pc[AMF] = "refs"
    /\ LET file_ref_pos == FindKind(content[AMF], "BeginFR", 0)
           file_ref_insert_pos == FindNL(content[AMF], file_ref_pos) + 1
           entries == [i \in 1..Len(loc[AMF].file_entries) |-> loc[AMF].file_entries[i].entry]
       IN  IF file_ref_pos = -1
           THEN /\ pc' = [pc EXCEPT ![AMF] = "done"]
                /\ UNCHANGED content
           ELSE /\ content' = [content EXCEPT ![AMF] =
                      InsertEach(@, file_ref_insert_pos, WithNL(entries))]
                /\ pc' = [pc EXCEPT ![AMF] = "sources"]
    /\ UNCHANGED <<disk, disk0, loc, hist, drawn, ncoll, runs>>

\* lines 110-127: the Sources build phase insertion
AMF_InsertSources ==
    /\ pc[AMF] = "sources"
    /\ LET sources_pos == FindKind(content[AMF], "BeginSBP", 0)
           files_section == FindKind(content[AMF], "FO", sources_pos)
           sources_insert_pos == FindNL(content[AMF], files_section) + 1
       IN  IF sources_pos = -1 \/ files_section = -1
           THEN /\ pc' = [pc EXCEPT ![AMF] = "done"]
                /\ UNCHANGED content
           ELSE /\ content' = [content EXCEPT ![AMF] =
                      InsertEach(@, sources_insert_pos, WithNL(loc[AMF].build_phase_entries))]
                /\ pc' = [pc EXCEPT ![AMF] = "write"]
    /\ UNCHANGED <<disk, disk0, loc, hist, drawn, ncoll, runs>>

\* lines 129-135: the write
AMF_Write ==
    /\ pc[AMF] = "write"
    /\ WriteFile(AMF)
    /\ pc' = [pc EXCEPT ![AMF] = "done"]
    /\ UNCHANGED <<disk0, content, loc, drawn, ncoll, runs>>

\* the script is started again (python3 add_missing_files.py, a second time)
AMF_Again ==
    /\ pc[AMF] = "done"
    /\ runs[AMF] < MaxRuns
    /\ pc' = [pc EXCEPT ![AMF] = "start"]
    /\ UNCHANGED <<disk, disk0, content, loc, hist, drawn, ncoll, runs>>

(***************************************************************************)
(* The runs of add_missing_files.py.                                       *)
(***************************************************************************)
\* a file that is in the project from the start, unrelated to the scripts' lists
RewardCard == Entry("RewardCard.swift", "A6FF82532EDE3B10008330C9", "A6FF82542EDE3B10008330C9", FALSE)

\* GeoGameView.swift as an earlier run left it (path = GeoGameView.swift) and
\* as fix_file_paths would rewrite such a record (the full path)
GeoGameByName == Entry("GeoGameView.swift", "0B5E2C7A41D94F6E8A3C1D20", "7D1F4A9C3B6E4E0D9F2A8C11", FALSE)
GeoGameByPath == Entry("GeoGameView.swift", "0B5E2C7A41D94F6E8A3C1D20", "7D1F4A9C3B6E4E0D9F2A8C11", TRUE)

\* the manifest with the given entries; anch says which anchor is missing
Manifest(anch, ents) ==
    BuildFileSection(anch # "noBeginBF", TRUE, ents)
    \o FileRefSection(anch # "noBeginFR", TRUE, ents)
    \o GroupBlock(ViewsGroupId, "Views", TRUE, CHLines(ents))
    \o SourcesSection(anch # "noBeginSBP", anch # "noFiles", SourcesPhaseId, ents)

AMFManifests ==
    {Manifest(anch, ents) :
        anch \in {"all", "noBeginBF", "noBeginFR", "noBeginSBP", "noFiles"},
        ents \in {<<RewardCard>>, <<RewardCard, GeoGameByName>>, <<RewardCard, GeoGameByPath>>}}

\* the scripts of `scripts` are about to run on one of the manifests; n of
\* the MaxCollisions identifier collisions count as spent
InitFrom(manifests, scripts, n) ==
    /\ disk \in manifests
    /\ disk0 = disk
    /\ pc = [s \in Scripts |-> IF s \in scripts THEN "start" ELSE "off"]
    /\ content = [s \in Scripts |-> <<>>]
    /\ loc = [s \in Scripts |-> Idle]
    /\ hist = <<>>
    /\ drawn = {}
    /\ ncoll = n
    /\ runs = [s \in Scripts |-> 0]

InitWith(manifests, scripts) == InitFrom(manifests, scripts, 0)

InitAMF == InitWith(AMFManifests, {AMF})

NextAMF ==
    \/ AMF_Read
    \/ AMF_Plan
    \/ AMF_InsertBuildFiles
    \/ AMF_InsertFileRefs
    \/ AMF_InsertSources
    \/ AMF_Write

\* one run of add_missing_files.py
SpecAMF == InitAMF /\ [][NextAMF]_vars

\* add_missing_files.py run up to MaxRuns times in a row
SpecAMFAgain == InitAMF /\ [][NextAMF \/ AMF_Again]_vars

(***************************************************************************)
(* Claims about add_missing_files.py.                                      *)
(***************************************************************************)
\* script s has written the file
Wrote(s) == \E i \in 1..Len(hist) : hist[i].s = s /\ hist[i].op = "write"

\* C1 (as claimed): when add_missing_files has written the manifest, every
\* file it added has exactly one PBXFileReference record, one PBXBuildFile
\* record, one line in a group's children list and one line in the Sources
\* build phase's files list.
C1_FourWayCompleteness ==
    (pc[AMF] = "done" /\ Wrote(AMF)) =>
        \A i \in 1..Len(loc[AMF].file_entries) :
            LET n == loc[AMF].file_entries[i].file_path
            IN  /\ CountKN(disk, "FR", n) = 1
                /\ CountKN(disk, "BF", n) = 1
                /\ CountKN(disk, "CH", n) = 1
                /\ CountKN(disk, "SF", n) = 1

\* C2 (as claimed): when add_missing_files is run twice in a row and the
\* first run wrote the manifest, the text after the second run is the text
\* the first run wrote.
C2_AddIsIdempotent ==
    (runs[AMF] = 2 /\ pc[AMF] = "done" /\ Len(hist) >= 2 /\ hist[2].op = "write") =>
        disk = hist[2].text

\* C6 (as claimed): when add_missing_files has written the manifest, no two
\* PBXFileReference records and no two PBXBuildFile records have the same
\* identifier, and no identifier returned by generate_uuid was in use before.
C6_IdentifiersUnique ==
    (pc[AMF] = "done" /\ Wrote(AMF)) =>
        /\ \A i, j \in 1..Len(disk) :
              (i # j /\ disk[i].k = disk[j].k /\ disk[i].k \in {"FR", "BF"})
                  => disk[i].id # disk[j].id
        /\ ncoll = 0

(***************************************************************************)
(* add_modals_to_project.py                                                *)
(***************************************************************************)
MOD == "add_modals_to_project"

\* files (lines 10-13), named by the last component of the path
modal_files == <<"GameBoostsModal.swift", "VirtualGoodsModal.swift">>

\* re.search(r'([A-F0-9]{24}) /\* Components \*/ = \{', content): the offset
\* of the first group header named Components, or -1
SearchComponents(text) ==
    LET S == {p \in 0..(Len(text) - 1) : text[p + 1].k = "GH" /\ text[p + 1].name = "Components"}
    IN  IF S = {} THEN -1 ELSE Min(S)

\* re.search(r'/\* Begin PBX... section \*/\n', content).end(), or -1
SearchMarkerLineEnd(text, k) ==
    LET S == {p \in 0..(Len(text) - 2) : text[p + 1].k = k /\ text[p + 2].k = "NL"}
    IN  IF S = {} THEN -1 ELSE Min(S) + 2

\* the offset of the first "}" after offset p, or Len(text)
NextCloseBrace(text, p) ==
    LET S == {q \in p..(Len(text) - 1) : HasCloseBrace(text[q + 1])}
    IN  IF S = {} THEN Len(text) ELSE Min(S)

\* re.search(<head> [^}]+ <a token of kind k>).end(): heads is the set of
\* offsets where <head> matches; the match starts at the first of them that
\* has a token of kind k before the next "}" (the tabs such a token starts
\* with are the one character [^}]+ needs), and [^}]+, greedy, runs to the
\* last such token.  -1: no match
SearchHeadThenKind(text, heads, k) ==
    LET Ends(p) == {c \in (p + 1)..(NextCloseBrace(text, p + 1) - 1) : text[c + 1].k = k}
        S == {p \in heads : Ends(p) # {}}
    IN  IF S = {} THEN -1 ELSE Max(Ends(Min(S))) + 1

\* lines 62-70 and 87-95: the scan for the closing parenthesis
\*   while paren_depth > 0 and current_pos < len(content): ...
\* Every "(" and ")" is one character; "children = (" and "files = (" end in
\* "(".  The loop can only stop behind a ")" or at the end of the text.
\* the scan as the class [^)]* would do it: to the first ")", nested or not
ParenScanToFirstClose(text, current_pos, paren_depth) ==
    LET S == {q \in current_pos..(Len(text) - 1) : text[q + 1].k = "RP"}
    IN  IF S = {} THEN [current_pos |-> Len(text), paren_depth |-> paren_depth]
        ELSE [current_pos |-> Min(S) + 1, paren_depth |-> 0]

RECURSIVE ParenScan(_, _, _)
ParenScan(text, current_pos, paren_depth) ==
    IF paren_depth > 0 /\ current_pos < Len(text)
    THEN ParenScan(text, current_pos + 1, paren_depth + ParenDelta(text[current_pos + 1]))
    ELSE [current_pos |-> current_pos, paren_depth |-> paren_depth]

\* lines 6-7
MOD_Read ==
    /\ pc[MOD] = "start"
    /\ ReadFile(MOD)
    /\ loc' = [loc EXCEPT ![MOD] = [i |-> 1, file_refs |-> <<>>, components_uuid |-> "",
                                    group_scan |-> <<>>, sources_scan |-> <<>>]]
    /\ pc' = [pc EXCEPT ![MOD] = "uuids"]
    /\ runs' = [runs EXCEPT ![MOD] = @ + 1]
    /\ UNCHANGED <<disk, disk0, drawn, ncoll>>

\* lines 17-23: one iteration of the loop over files
MOD_Uuids ==
    /\ pc[MOD] = "uuids"
    /\ loc[MOD].i <= Len(modal_files)
    /\ \E build_uuid \in generate_uuid(InUse, ncoll) :
       \E ref_uuid \in generate_uuid(InUse \cup {build_uuid}, Collided(InUse, ncoll, build_uuid)) :
          /\ loc' = [loc EXCEPT ![MOD].i = @ + 1,
                                ![MOD].file_refs = Append(@,
                                    [filename |-> modal_files[loc[MOD].i],
                                     build_uuid |-> build_uuid, ref_uuid |-> ref_uuid])]
          /\ drawn' = drawn \cup {build_uuid, ref_uuid}
          /\ ncoll' = Collided(InUse \cup {build_uuid},
                               Collided(InUse, ncoll, build_uuid), ref_uuid)
    /\ UNCHANGED <<disk, disk0, pc, content, hist, runs>>

\* lines 25-31: the Components group, or exit(1)
MOD_FindComponents ==
    /\ pc[MOD] = "uuids"
    /\ loc[MOD].i > Len(modal_files)
    /\ LET components_match == SearchComponents(content[MOD])
       IN  IF components_match = -1
           THEN /\ pc' = [pc EXCEPT ![MOD] = "exit"]
                /\ UNCHANGED loc
           ELSE /\ loc' = [loc EXCEPT ![MOD].components_uuid = content[MOD][components_match + 1].id]
                /\ pc' = [pc EXCEPT ![MOD] = "build"]
    /\ UNCHANGED <<disk, disk0, content, hist, drawn, ncoll, runs>>

\* the entries of one section, joined: fn makes a file's line
MOD_BuildEntries(file_refs) ==
    Join([i \in 1..Len(file_refs) |->
        Line(BF(file_refs[i].build_uuid, file_refs[i].ref_uuid, file_refs[i].filename))])
MOD_RefEntries(file_refs) ==
    Join([i \in 1..Len(file_refs) |-> Line(FR(file_refs[i].ref_uuid, file_refs[i].filename))])
MOD_GroupEntries(file_refs) ==
    Join([i \in 1..Len(file_refs) |-> Line(CH(file_refs[i].ref_uuid, file_refs[i].filename))])
MOD_PhaseEntries(file_refs) ==
    Join([i \in 1..Len(file_refs) |-> Line(SF(file_refs[i].build_uuid, file_refs[i].filename))])

\* lines 33-42: the PBXBuildFile entries, when the marker line is found
MOD_InsertBuildFiles ==
    /\ pc[MOD] = "build"
    /\ LET insert_pos == SearchMarkerLineEnd(content[MOD], "BeginBF")
       IN  content' = [content EXCEPT ![MOD] =
               IF insert_pos = -1 THEN @
               ELSE Splice(@, insert_pos, MOD_BuildEntries(loc[MOD].file_refs))]
    /\ pc' = [pc EXCEPT ![MOD] = "refs"]
    /\ UNCHANGED <<disk, disk0, loc, hist, drawn, ncoll, runs>>

\* lines 44-53: the PBXFileReference entries, when the marker line is found
MOD_InsertFileRefs ==
    /\ pc[MOD] = "refs"
    /\ LET insert_pos == SearchMarkerLineEnd(content[MOD], "BeginFR")
       IN  content' = [content EXCEPT ![MOD] =
               IF insert_pos = -1 THEN @
               ELSE Splice(@, insert_pos, MOD_RefEntries(loc[MOD].file_refs))]
    /\ pc' = [pc EXCEPT ![MOD] = "group"]
    /\ UNCHANGED <<disk, disk0, loc, hist, drawn, ncoll, runs>>

\* the offsets of the headers "{components_uuid} /* Components */ = {"
ComponentsHeads(text, components_uuid) ==
    {p \in 0..(Len(text) - 1) :
        text[p + 1].k = "GH" /\ text[p + 1].name = "Components" /\ text[p + 1].id = components_uuid}

\* the offsets of "isa = PBXSourcesBuildPhase;"
SourcesHeads(text) == {p \in 0..(Len(text) - 1) : text[p + 1].k = "ISAS"}

\* lines 55-79: the Components children list, when it is found
MOD_InsertGroup ==
    /\ pc[MOD] = "group"
    /\ LET start_pos == SearchHeadThenKind(content[MOD],
                            ComponentsHeads(content[MOD], loc[MOD].components_uuid), "CO")
           scan == ParenScan(content[MOD], start_pos, 1)
           insert_pos == scan.current_pos - 1
       IN  IF start_pos = -1
           THEN UNCHANGED <<content, loc>>
           ELSE /\ content' = [content EXCEPT ![MOD] =
                       Splice(@, insert_pos, MOD_GroupEntries(loc[MOD].file_refs))]
                /\ loc' = [loc EXCEPT ![MOD].group_scan =
                       <<[text |-> content[MOD], start_pos |-> start_pos,
                          insert_pos |-> insert_pos, paren_depth |-> scan.paren_depth]>>]
    /\ pc' = [pc EXCEPT ![MOD] = "sources"]
    /\ UNCHANGED <<disk, disk0, hist, drawn, ncoll, runs>>

\* lines 81-104: the Sources build phase files list, when it is found
MOD_InsertSources ==
    /\ pc[MOD] = "sources"
    /\ LET start_pos == SearchHeadThenKind(content[MOD], SourcesHeads(content[MOD]), "FO")
           scan == ParenScan(content[MOD], start_pos, 1)
           insert_pos == scan.current_pos - 1
       IN  IF start_pos = -1
           THEN UNCHANGED <<content, loc>>
           ELSE /\ content' = [content EXCEPT ![MOD] =
                       Splice(@, insert_pos, MOD_PhaseEntries(loc[MOD].file_refs))]
                /\ loc' = [loc EXCEPT ![MOD].sources_scan =
                       <<[text |-> content[MOD], start_pos |-> start_pos,
                          insert_pos |-> insert_pos, paren_depth |-> scan.paren_depth]>>]
    /\ pc' = [pc EXCEPT ![MOD] = "write"]
    /\ UNCHANGED <<disk, disk0, hist, drawn, ncoll, runs>>

\* lines 106-108
MOD_Write ==
    /\ pc[MOD] = "write"
    /\ WriteFile(MOD)
    /\ pc' = [pc EXCEPT ![MOD] = "done"]
    /\ UNCHANGED <<disk0, content, loc, drawn, ncoll, runs>>

(***************************************************************************)
(* The runs of add_modals_to_project.py.                                   *)
(***************************************************************************)
\* a children line whose comment holds a pair of parentheses,
\* "\t\t\t\tID /* Boosts (old).swift */," and one that holds only the opening one
NestedKid == <<TXT("A6FF82612EDE3B44008330C9", " /* Boosts "), LP, TXT("", "old"), RP,
               TXT("", ".swift */,"), NL>>
UnclosedKid == <<TXT("A6FF82612EDE3B44008330C9", " /* Boosts "), LP, TXT("", "old.swift */,"), NL>>

ModalsManifest(comp, kids, bf, fr, files, extra) ==
    BuildFileSection(bf, TRUE, <<RewardCard>>) \o FileRefSection(fr, TRUE, <<RewardCard>>)
    \o GroupBlock(IF comp THEN ComponentsGroupId ELSE ViewsGroupId,
                  IF comp THEN "Components" ELSE "Views",
                  kids, CHLines(<<RewardCard>>) \o extra)
    \o SourcesSection(TRUE, files, SourcesPhaseId, <<RewardCard>>)

ModalsManifests ==
    {ModalsManifest(comp, kids, bf, fr, files, extra) :
        comp \in BOOLEAN, kids \in BOOLEAN, bf \in BOOLEAN, fr \in BOOLEAN,
        files \in BOOLEAN, extra \in {<<>>, NestedKid, UnclosedKid}}

InitMOD == InitWith(ModalsManifests, {MOD})

NextMOD ==
    \/ MOD_Read
    \/ MOD_Uuids
    \/ MOD_FindComponents
    \/ MOD_InsertBuildFiles
    \/ MOD_InsertFileRefs
    \/ MOD_InsertGroup
    \/ MOD_InsertSources
    \/ MOD_Write

\* one run of add_modals_to_project.py
SpecMOD == InitMOD /\ [][NextMOD]_vars

(***************************************************************************)
(* Claims about add_modals_to_project.py.                                  *)
(***************************************************************************)
\* every ")" closes a "(" before it and every "(" is closed: the depth
\* never falls below 0 and ends at 0
RECURSIVE ParensBalancedFrom(_, _, _)
ParensBalancedFrom(text, i, depth) ==
    IF depth < 0 THEN FALSE
    ELSE IF i > Len(text) THEN depth = 0
    ELSE ParensBalancedFrom(text, i + 1, depth + ParenDelta(text[i]))
ParensBalanced(text) == ParensBalancedFrom(text, 1, 0)

\* the same for braces
RECURSIVE BracesBalancedFrom(_, _, _)
BracesBalancedFrom(text, i, depth) ==
    IF depth < 0 THEN FALSE
    ELSE IF i > Len(text) THEN depth = 0
    ELSE BracesBalancedFrom(text, i + 1, depth + BraceDelta(text[i]))
BracesBalanced(text) == BracesBalancedFrom(text, 1, 0)

\* the offsets of the ")" that closes the "(" ending just before offset start:
\* the text in between is balanced
ClosersOf(text, start) ==
    {q \in start..(Len(text) - 1) :
        text[q + 1].k = "RP" /\ ParensBalanced(SubSeq(text, start + 1, q))}

\* the five anchors add_modals_to_project looks for
MOD_AnchorsFound(text) ==
    /\ SearchComponents(text) # -1
    /\ SearchMarkerLineEnd(text, "BeginBF") # -1
    /\ SearchMarkerLineEnd(text, "BeginFR") # -1
    /\ SearchHeadThenKind(text, {p \in 0..(Len(text) - 1) :
            text[p + 1].k = "GH" /\ text[p + 1].name = "Components"}, "CO") # -1
    /\ SearchHeadThenKind(text, SourcesHeads(text), "FO") # -1

\* C3 (as claimed): when one of the anchors cannot be located in the manifest,
\* add_modals_to_project leaves the file as it was.
C3_AbortOnMissingAnchor == ~MOD_AnchorsFound(disk0) => disk = disk0

\* C8: for a manifest with balanced parentheses, each of the two scans ends
\* with insert_pos at the ")" that balances the list's "(", nested pairs or
\* not, and the text stays balanced (parentheses and braces) through the run.
C8_ScanFindsBalancingParen ==
    (pc[MOD] \notin {"off", "start"} /\ ParensBalanced(disk0) /\ BracesBalanced(disk0)) =>
        /\ \A sc \in {loc[MOD].group_scan, loc[MOD].sources_scan} :
              sc # <<>> => ClosersOf(sc[1].text, sc[1].start_pos) = {sc[1].insert_pos}
        /\ ParensBalanced(content[MOD])
        /\ BracesBalanced(content[MOD])

\* a run on a balanced manifest with a nested pair in the children list has
\* made both scans and written the file
C8_Witness ==
    /\ pc[MOD] = "done"
    /\ ParensBalanced(disk0)
    /\ \E i \in 1..Len(disk0) : disk0[i].k = "LP"
    /\ loc[MOD].group_scan # <<>>
    /\ loc[MOD].sources_scan # <<>>
    /\ disk # disk0

(***************************************************************************)
(* Character offsets.  add_phase1_components.py computes an offset in      *)
(* characters (start - 200), so the tokens' lengths matter there.          *)
(***************************************************************************)
\* the directory of a file's full path
DirOf(name) == IF name = "GeoGameView.swift" THEN "Billix/Features/Rewards/Views/GeoGame/"
               ELSE "Billix/Features/Upload/Views/Components/"

\* len() of a token's text; an identifier has 24 characters
Width(t) ==
    CASE t.k = "FR" /\ ~t.full -> 110 + 24 + 2 * Len(t.name)
      [] t.k = "FR" /\ t.full -> 114 + 24 + 2 * Len(t.name) + Len(DirOf(t.name))
      [] t.k = "BF" -> 65 + 48 + 2 * Len(t.name)
      [] t.k = "CH" -> 12 + 24 + Len(t.name)
      [] t.k = "SF" -> 23 + 24 + Len(t.name)
      [] t.k = "GH" -> 13 + 24 + Len(t.name)
      [] t.k = "NAMEATTR" -> 11 + Len(t.name)
      [] t.k = "TXT" -> Len(t.name) + Len(t.id)
      [] t.k = "BeginBF" -> 32
      [] t.k = "EndBF" -> 30
      [] t.k = "BeginFR" -> 36
      [] t.k = "EndFR" -> 34
      [] t.k = "BeginSBP" -> 40
      [] t.k = "EndSBP" -> 38
      [] t.k = "ISAG" -> 18
      [] t.k = "ISAS" -> 30
      [] t.k = "CO" -> 15
      [] t.k = "FO" -> 12
      [] t.k = "IND" -> 3
      [] t.k = "END" -> 4
      [] OTHER -> 1

\* the character offset of token offset p
RECURSIVE CharOff(_, _)
CharOff(text, p) == IF p <= 0 THEN 0 ELSE CharOff(text, p - 1) + Width(text[p])

\* the tabs in front of the text that is searched for, inside its token
Lead(k) == IF k \in {"CO", "FO", "NAMEATTR", "ISAG", "ISAS"} THEN 3 ELSE 0

\* the character offset where the searched text of the token at p starts
MatchChar(text, p) == CharOff(text, p) + Lead(text[p + 1].k)

\* text.find(<the text of a token of kind k>, start) with start in characters
\* (negative: from the end, as Python has it); the token offset, or -1
FindKindFromChar(text, k, start) ==
    LET len == CharOff(text, Len(text))
        from == IF start < 0 THEN (IF len + start < 0 THEN 0 ELSE len + start) ELSE start
        S == {p \in 0..(Len(text) - 1) : text[p + 1].k = k /\ MatchChar(text, p) >= from}
    IN  IF S = {} THEN -1 ELSE Min(S)

\* text.find('name = <name>;'): the token offset, or -1
FindNameAttr(text, name) ==
    LET S == {p \in 0..(Len(text) - 1) : text[p + 1].k = "NAMEATTR" /\ text[p + 1].name = name}
    IN  IF S = {} THEN -1 ELSE Min(S)

(***************************************************************************)
(* add_phase1_components.py                                                *)
(***************************************************************************)
P1 == "add_phase1_components"

\* files_to_add (lines 19-32)
files_to_add == <<"CircularProgressRing.swift", "StarDisplay.swift", "SeasonCardLarge.swift">>

\* lines 14-16 and 35-36
P1_Read ==
    /\ pc[P1] = "start"
    /\ ReadFile(P1)
    /\ loc' = [loc EXCEPT ![P1] = [i |-> 1, file_refs |-> <<>>, build_files |-> <<>>]]
    /\ pc' = [pc EXCEPT ![P1] = "uuids"]
    /\ runs' = [runs EXCEPT ![P1] = @ + 1]
    /\ UNCHANGED <<disk, disk0, drawn, ncoll>>

\* lines 38-51: one iteration of the loop over files_to_add
P1_Uuids ==
    /\ pc[P1] = "uuids"
    /\ loc[P1].i <= Len(files_to_add)
    /\ \E file_ref_id \in generate_uuid(InUse, ncoll) :
       \E build_file_id \in generate_uuid(InUse \cup {file_ref_id},
                                          Collided(InUse, ncoll, file_ref_id)) :
          /\ loc' = [loc EXCEPT ![P1].i = @ + 1,
                                ![P1].file_refs = Append(@,
                                    [id |-> file_ref_id, name |-> files_to_add[loc[P1].i]]),
                                ![P1].build_files = Append(@,
                                    [id |-> build_file_id, file_ref |-> file_ref_id])]
          /\ drawn' = drawn \cup {file_ref_id, build_file_id}
          /\ ncoll' = Collided(InUse \cup {file_ref_id},
                               Collided(InUse, ncoll, file_ref_id), build_file_id)
    /\ UNCHANGED <<disk, disk0, pc, content, hist, runs>>

\* next(ref['name'] for ref in file_refs if ref['id'] == build['file_ref'])
P1_NameOf(file_refs, file_ref) ==
    file_refs[Min({j \in 1..Len(file_refs) : file_refs[j].id = file_ref})].name

\* lines 53-70: the PBXFileReference records, in front of the End marker
P1_InsertFileRefs ==
    /\ pc[P1] = "uuids"
    /\ loc[P1].i > Len(files_to_add)
    /\ LET file_ref_section_start == FindKind(content[P1], "BeginFR", 0)
           file_ref_section_end == FindKind(content[P1], "EndFR", file_ref_section_start)
           new_file_refs == [j \in 1..Len(loc[P1].file_refs) |->
                                Line(FR(loc[P1].file_refs[j].id, loc[P1].file_refs[j].name))]
       IN  IF file_ref_section_start = -1
           THEN /\ pc' = [pc EXCEPT ![P1] = "failed"]
                /\ UNCHANGED content
           ELSE /\ content' = [content EXCEPT ![P1] =
                       Splice(@, file_ref_section_end, Join(new_file_refs))]
                /\ pc' = [pc EXCEPT ![P1] = "build"]
    /\ UNCHANGED <<disk, disk0, loc, hist, drawn, ncoll, runs>>

\* lines 72-86 with a save of the file behind the insertion: the file gets
\* the text that has the first two insertions only
P1_InsertBuildFilesAndSave ==
    /\ pc[P1] = "build"
    /\ LET build_file_section_start == FindKind(content[P1], "BeginBF", 0)
           build_file_section_end == FindKind(content[P1], "EndBF", build_file_section_start)
           new_build_files == [j \in 1..Len(loc[P1].build_files) |->
               LET build == loc[P1].build_files[j]
                   file_name == P1_NameOf(loc[P1].file_refs, build.file_ref)
               IN  Line(BF(build.id, build.file_ref, file_name))]
       IN  IF build_file_section_start = -1
           THEN /\ pc' = [pc EXCEPT ![P1] = "failed"]
                /\ UNCHANGED <<content, disk, hist>>
           ELSE /\ content' = [content EXCEPT ![P1] =
                       Splice(@, build_file_section_end, Join(new_build_files))]
                /\ disk' = content'[P1]
                /\ hist' = Append(hist, [s |-> P1, op |-> "write", text |-> content'[P1]])
                /\ pc' = [pc EXCEPT ![P1] = "group"]
    /\ UNCHANGED <<disk0, loc, drawn, ncoll, runs>>

\* lines 72-86: the PBXBuildFile records, in front of the End marker
P1_InsertBuildFiles ==
    /\ pc[P1] = "build"
    /\ LET build_file_section_start == FindKind(content[P1], "BeginBF", 0)
           build_file_section_end == FindKind(content[P1], "EndBF", build_file_section_start)
           new_build_files == [j \in 1..Len(loc[P1].build_files) |->
               LET build == loc[P1].build_files[j]
                   file_name == P1_NameOf(loc[P1].file_refs, build.file_ref)
               IN  Line(BF(build.id, build.file_ref, file_name))]
       IN  IF build_file_section_start = -1
           THEN /\ pc' = [pc EXCEPT ![P1] = "failed"]
                /\ UNCHANGED content
           ELSE /\ content' = [content EXCEPT ![P1] =
                       Splice(@, build_file_section_end, Join(new_build_files))]
                /\ pc' = [pc EXCEPT ![P1] = "group"]
    /\ UNCHANGED <<disk, disk0, loc, hist, drawn, ncoll, runs>>

\* lines 88-120: the children list near 'name = Components;', or else the
\* one near 'name = Seasons;'
P1_InsertGroup ==
    /\ pc[P1] = "group"
    /\ LET text == content[P1]
           components_group_start == FindNameAttr(text, "Components")
           seasons_start == FindNameAttr(text, "Seasons")
           anchor == IF components_group_start # -1 THEN components_group_start ELSE seasons_start
           children_start == FindKindFromChar(text, "CO", MatchChar(text, anchor) - 200)
           children_end == FindCloseSemi(text, children_start)
           new_children == [j \in 1..Len(loc[P1].file_refs) |->
                               Line(CH(loc[P1].file_refs[j].id, loc[P1].file_refs[j].name))]
       IN  IF anchor = -1 \/ (components_group_start # -1 /\ children_start = -1)
           THEN UNCHANGED content
           ELSE content' = [content EXCEPT ![P1] = InsertEach(@, children_end, new_children)]
    /\ pc' = [pc EXCEPT ![P1] = "sources"]
    /\ UNCHANGED <<disk, disk0, loc, hist, drawn, ncoll, runs>>

\* lines 122-136: the files list of the Sources build phase
P1_InsertSources ==
    /\ pc[P1] = "sources"
    /\ LET text == content[P1]
           sources_phase_start == FindKind(text, "BeginSBP", 0)
           files_start == FindKind(text, "FO", sources_phase_start)
           files_end == FindCloseSemi(text, files_start)
           new_files == [j \in 1..Len(loc[P1].build_files) |->
               LET build == loc[P1].build_files[j]
                   file_name == P1_NameOf(loc[P1].file_refs, build.file_ref)
               IN  Line(SF(build.id, file_name))]
       IN  IF sources_phase_start = -1 \/ files_start = -1
           THEN UNCHANGED content
           ELSE content' = [content EXCEPT ![P1] = InsertEach(@, files_end, new_files)]
    /\ pc' = [pc EXCEPT ![P1] = "write"]
    /\ UNCHANGED <<disk, disk0, loc, hist, drawn, ncoll, runs>>

\* lines 138-146
P1_Write ==
    /\ pc[P1] = "write"
    /\ WriteFile(P1)
    /\ pc' = [pc EXCEPT ![P1] = "done"]
    /\ UNCHANGED <<disk0, content, loc, drawn, ncoll, runs>>

(***************************************************************************)
(* clean_and_fix_project.py                                                *)
(***************************************************************************)
CLN == "clean_and_fix_project"

\* the file names of files_to_remove (lines 17-19) and its identifiers
\* (lines 20-28)
remove_names == {"CircularProgressRing.swift", "StarDisplay.swift", "SeasonCardLarge.swift"}
remove_ids == {"569EADE396C943AD9D3937CF", "F1FDD63808364F348FAD6289", "8A93B90B05D34029BD725D92",
               "4E9836B2BD75402BAE66BB4E", "36B5F280B23F41E3A9F9CD00", "274F2D96A7DB4A9C9BA11F0A",
               "50E1A5C0F97E44C4BA03DC44", "F6AA3A55ECD74CD18996DD4A", "8C0A82CBBF5D4E6FBAFB8A37"}

\* the identifier of SeasonCard.swift's file reference (line 70)
SeasonCardRef == "A6FF82892EECA1C5008330C9"

\* f.readlines() / text.split('\n'): the lines of a text, without their line
\* breaks; a text that ends in a line break has an empty last line
RECURSIVE SplitLines(_)
SplitLines(text) ==
    LET nl == FindNL(text, 0)
    IN  IF nl = -1 THEN <<text>>
        ELSE <<SubSeq(text, 1, nl)>> \o SplitLines(SubSeq(text, nl + 2, Len(text)))

\* '\n'.join(lines)
RECURSIVE JoinLines(_)
JoinLines(lines) ==
    IF lines = <<>> THEN <<>>
    ELSE IF Len(lines) = 1 THEN lines[1]
    ELSE lines[1] \o <<NL>> \o JoinLines(Tail(lines))

\* lines 32-37: pattern in line and ('PBXBuildFile' in line or
\* 'PBXFileReference' in line or 'in Sources' in line), for some pattern
CLN_ShouldRemove(line) ==
    /\ \E j \in 1..Len(line) :
          \/ \E n \in remove_names : HasName(line[j], n)
          \/ \E u \in remove_ids : HasId(line[j], u)
    /\ \E j \in 1..Len(line) :
          HasPBXBuildFile(line[j]) \/ HasPBXFileReference(line[j]) \/ HasInSources(line[j])

\* the lines of a sequence that a test keeps, in order
RECURSIVE CLN_Kept(_)
CLN_Kept(lines) ==
    IF lines = <<>> THEN <<>>
    ELSE (IF CLN_ShouldRemove(Head(lines)) THEN <<>> ELSE <<Head(lines)>>) \o CLN_Kept(Tail(lines))

\* text.replace(<a token of kind k>, <ins> + <that token>)
RECURSIVE InsertBeforeKind(_, _, _)
InsertBeforeKind(text, k, ins) ==
    IF text = <<>> THEN <<>>
    ELSE (IF Head(text).k = k THEN ins ELSE <<>>) \o <<Head(text)>>
         \o InsertBeforeKind(Tail(text), k, ins)

\* text.replace('files = (', 'files = (' + <ins>)
RECURSIVE InsertAfterFilesOpen(_, _)
InsertAfterFilesOpen(text, ins) ==
    IF text = <<>> THEN <<>>
    ELSE <<Head(text)>> \o (IF Head(text).k = "FO" THEN ins ELSE <<>>)
         \o InsertAfterFilesOpen(Tail(text), ins)

\* re.sub(r'(A6FF82892EECA1C5008330C9 /\* SeasonCard\.swift \*/,)', r'\1...', text)
RECURSIVE InsertAfterSeasonCard(_, _)
InsertAfterSeasonCard(text, ins) ==
    IF text = <<>> THEN <<>>
    ELSE <<Head(text)>>
         \o (IF Head(text).k = "CH" /\ Head(text).id = SeasonCardRef
                /\ Head(text).name = "SeasonCard.swift" THEN ins ELSE <<>>)
         \o InsertAfterSeasonCard(Tail(text), ins)

\* re.search(r'/\* Begin PBXSourcesBuildPhase section \*/.*?files = \((.*?)\);',
\* text, re.DOTALL) finds a match
CLN_SourcesMatch(text) ==
    LET b == FindKind(text, "BeginSBP", 0)
        f == FindKind(text, "FO", b + 1)
    IN  b # -1 /\ f # -1 /\ FindCloseSemi(text, f + 1) # -1

\* lines 11-13
CLN_Read ==
    /\ pc[CLN] = "start"
    /\ ReadFile(CLN)
    /\ loc' = [loc EXCEPT ![CLN] = [i |-> 1, ids |-> <<>>]]
    /\ pc' = [pc EXCEPT ![CLN] = "filter"]
    /\ runs' = [runs EXCEPT ![CLN] = @ + 1]
    /\ UNCHANGED <<disk, disk0, drawn, ncoll>>

\* lines 31-41: the removal pass
CLN_Filter ==
    /\ pc[CLN] = "filter"
    /\ content' = [content EXCEPT ![CLN] = JoinLines(CLN_Kept(SplitLines(@)))]
    /\ pc' = [pc EXCEPT ![CLN] = "uuids"]
    /\ UNCHANGED <<disk, disk0, loc, hist, drawn, ncoll, runs>>

\* lines 43-50: one call of generate_uuid; ids will hold circ_ref, star_ref,
\* card_ref, circ_build, star_build, card_build
CLN_Uuid ==
    /\ pc[CLN] = "uuids"
    /\ Len(loc[CLN].ids) < 6
    /\ \E u \in generate_uuid(InUse, ncoll) :
          /\ loc' = [loc EXCEPT ![CLN].ids = Append(@, u)]
          /\ drawn' = drawn \cup {u}
          /\ ncoll' = Collided(InUse, ncoll, u)
    /\ UNCHANGED <<disk, disk0, pc, content, hist, runs>>

\* the file names in the order of the six identifiers' first three
CLN_Names == <<"CircularProgressRing.swift", "StarDisplay.swift", "SeasonCardLarge.swift">>

\* lines 52-89: the four additions
CLN_ReAdd ==
    /\ pc[CLN] = "uuids"
    /\ Len(loc[CLN].ids) = 6
    /\ LET ids == loc[CLN].ids
           new_refs == Join([j \in 1..3 |-> Line(FR(ids[j], CLN_Names[j]))])
           new_builds == Join([j \in 1..3 |-> Line(BF(ids[j + 3], ids[j], CLN_Names[j]))])
           new_children == Join([j \in 1..3 |-> <<NL, CH(ids[j], CLN_Names[j])>>])
           new_sources == <<NL>> \o Join([j \in 1..3 |-> Line(SF(ids[j + 3], CLN_Names[j]))])
           c1 == InsertBeforeKind(content[CLN], "EndFR", new_refs)
           c2 == InsertBeforeKind(c1, "EndBF", new_builds)
           c3 == InsertAfterSeasonCard(c2, new_children)
           c4 == IF CLN_SourcesMatch(c3) THEN InsertAfterFilesOpen(c3, new_sources) ELSE c3
       IN  content' = [content EXCEPT ![CLN] = c4]
    /\ pc' = [pc EXCEPT ![CLN] = "write"]
    /\ UNCHANGED <<disk, disk0, loc, hist, drawn, ncoll, runs>>

\* lines 91-93
CLN_Write ==
    /\ pc[CLN] = "write"
    /\ WriteFile(CLN)
    /\ pc' = [pc EXCEPT ![CLN] = "done"]
    /\ UNCHANGED <<disk0, content, loc, drawn, ncoll, runs>>

(***************************************************************************)
(* The runs of add_phase1_components.py and clean_and_fix_project.py.      *)
(* In these manifests every 'children = (' and 'files = (' has its ');'    *)
(* and the text ends in a line break, so that every offset the two scripts *)
(* compute lies between two tokens.                                        *)
(***************************************************************************)
SeasonsGroupId == "A6FF82802EECA1B0008330C9"

SeasonCard == Entry("SeasonCard.swift", SeasonCardRef, "A6FF828A2EECA1C5008330C9", FALSE)
SeasonThemeBackground == Entry("SeasonThemeBackground.swift", "3C7A1E5D9B2F4A6C8E0D1F23", "5E9C3A7F1B4D4C2EA6F8D045", FALSE)
SectionHeader == Entry("SectionHeader.swift", "7A2C4E6F8B1D4F3A9C5E0B67", "9B4D6F8A1C3E4A5BB7D9F189", FALSE)
SeasonSelectionView == Entry("SeasonSelectionView.swift", "A6FF82872EECA1C5008330C9", "A6FF82882EECA1C5008330C9", FALSE)

\* anch: which anchor is missing; grp: where the components are grouped.
\* "compLong" is a Components group whose children list is longer than 200
\* characters
P1Manifest(anch, grp) ==
    LET ents == IF grp = "compLong"
                THEN <<SeasonCard, SeasonThemeBackground, SectionHeader, SeasonSelectionView>>
                ELSE <<SeasonCard>>
        sub == CASE grp \in {"comp", "compLong"} ->
                      GroupBlock(ComponentsGroupId, "Components", TRUE, CHLines(ents))
                 [] grp = "seasons" -> GroupBlock(SeasonsGroupId, "Seasons", TRUE, CHLines(ents))
                 [] OTHER -> <<>>
        top == CASE grp \in {"comp", "compLong"} -> Line(CH(ComponentsGroupId, "Components"))
                 [] grp = "seasons" -> Line(CH(SeasonsGroupId, "Seasons"))
                 [] OTHER -> CHLines(ents)
    IN  BuildFileSection(anch # "noBeginBF", TRUE, ents)
        \o FileRefSection(anch # "noBeginFR", anch # "noEndFR", ents)
        \o sub \o GroupBlock(ViewsGroupId, "Views", TRUE, top)
        \o SourcesSection(anch # "noBeginSBP", TRUE, SourcesPhaseId, ents)

P1Manifests ==
    {P1Manifest(anch, grp) :
        anch \in {"all", "noBeginBF", "noBeginFR", "noEndFR", "noBeginSBP"},
        grp \in {"comp", "compLong", "seasons", "none"}}

InitP1 == InitWith(P1Manifests, {P1})

NextP1 ==
    \/ P1_Read
    \/ P1_Uuids
    \/ P1_InsertFileRefs
    \/ P1_InsertBuildFiles
    \/ P1_InsertGroup
    \/ P1_InsertSources
    \/ P1_Write

NextCLN ==
    \/ CLN_Read
    \/ CLN_Filter
    \/ CLN_Uuid
    \/ CLN_ReAdd
    \/ CLN_Write

\* one run of add_phase1_components.py
SpecP1 == InitP1 /\ [][NextP1]_vars

\* add_phase1_components.py, and clean_and_fix_project.py once that has ended
InitAddThenClean == InitWith(P1Manifests, {P1, CLN})
P1_Ended == pc[P1] \in {"done", "failed"}
NextAddThenClean ==
    \/ NextP1
    \/ P1_Ended /\ CLN_Read
    \/ CLN_Filter
    \/ CLN_Uuid
    \/ CLN_ReAdd
    \/ CLN_Write
SpecAddThenClean == InitAddThenClean /\ [][NextAddThenClean]_vars

\* the text mentions file name n
Mentions(text, n) == \E j \in 1..Len(text) : HasName(text[j], n)

\* C4 (as claimed): on a manifest that mentions none of the three files, the
\* add of add_phase1_components followed by the removal pass of
\* clean_and_fix_project gives back the original text.
C4_AddThenRemoveIsIdentity ==
    (/\ \A n \in remove_names : ~Mentions(disk0, n)
     /\ Wrote(P1)
     /\ pc[CLN] = "uuids" /\ loc[CLN].ids = <<>>)
        => content[CLN] = disk0

(***************************************************************************)
(* fix_file_paths.py                                                       *)
(***************************************************************************)
FFP == "fix_file_paths"

\* lines 15-19 and the 'filename' of lines 55-68
files_to_remove == <<"GeoGameView.swift", "PhaseIndicatorView.swift", "ResultView.swift">>
fixes == <<"AnalysisResultsTabbedView.swift", "AnalysisSummaryTab.swift",
           "BillAnalysisNewComponents.swift">>

\* re.findall(r'([A-F0-9]{24}) /\* <filename> \*/', text): the identifiers
\* that stand right in front of the comment "/* filename */"
FFP_FindAll(text, filename) ==
    {(IF text[j].k = "BF" THEN text[j].ref ELSE text[j].id) :
        j \in {i \in 1..Len(text) : HasComment(text[i], filename)}}

\* any(uuid in line for uuid in uuids)
LineHasAnyId(line, uuids) == \E j \in 1..Len(line) : \E u \in uuids : HasId(line[j], u)

\* the lines that contain none of the identifiers, in order
RECURSIVE LinesWithout(_, _)
LinesWithout(lines, uuids) ==
    IF lines = <<>> THEN <<>>
    ELSE (IF LineHasAnyId(Head(lines), uuids) THEN <<>> ELSE <<Head(lines)>>)
         \o LinesWithout(Tail(lines), uuids)

\* line 90 replacing the first copy of the record only
FFP_FixFirstCopy(text, filename) ==
    LET S == {p \in 0..(Len(text) - 1) :
                 text[p + 1].k = "FR" /\ ~text[p + 1].full /\ text[p + 1].name = filename}
    IN  IF S = {} THEN text
        ELSE [text EXCEPT ![Min(S) + 1] = FRfull(text[Min(S) + 1].id, filename)]

\* lines 70-92 for one file: the first record of the short form is searched
\* and content.replace() puts the long form in the place of every copy of it
FFP_Fix(text, filename) ==
    LET S == {p \in 0..(Len(text) - 1) :
                 text[p + 1].k = "FR" /\ ~text[p + 1].full /\ text[p + 1].name = filename}
        old_line == text[Min(S) + 1]
    IN  IF S = {} THEN text
        ELSE [j \in 1..Len(text) |->
                 IF text[j] = old_line THEN FRfull(old_line.id, filename) ELSE text[j]]

RECURSIVE FFP_FixAll(_, _)
FFP_FixAll(text, names) ==
    IF names = <<>> THEN text ELSE FFP_FixAll(FFP_Fix(text, Head(names)), Tail(names))

\* lines 11-12
FFP_Read ==
    /\ pc[FFP] = "start"
    /\ ReadFile(FFP)
    /\ pc' = [pc EXCEPT ![FFP] = "remove"]
    /\ loc' = [loc EXCEPT ![FFP] = [uuids_to_remove |-> {}, removed_count |-> 0]]
    /\ runs' = [runs EXCEPT ![FFP] = @ + 1]
    /\ UNCHANGED <<disk, disk0, drawn, ncoll>>

\* lines 21-50: collect the identifiers, drop every line that holds one
FFP_Remove ==
    /\ pc[FFP] = "remove"
    /\ LET uuids_to_remove ==
               UNION {FFP_FindAll(content[FFP], files_to_remove[i]) :
                         i \in 1..Len(files_to_remove)}
           lines == SplitLines(content[FFP])
           new_lines == LinesWithout(lines, uuids_to_remove)
       IN  /\ content' = [content EXCEPT ![FFP] = JoinLines(new_lines)]
           /\ loc' = [loc EXCEPT ![FFP] =
                        [uuids_to_remove |-> uuids_to_remove,
                         removed_count |-> Len(lines) - Len(new_lines)]]
    /\ pc' = [pc EXCEPT ![FFP] = "fix"]
    /\ UNCHANGED <<disk, disk0, hist, drawn, ncoll, runs>>

\* lines 52-92
FFP_FixPaths ==
    /\ pc[FFP] = "fix"
    /\ content' = [content EXCEPT ![FFP] = FFP_FixAll(content[FFP], fixes)]
    /\ pc' = [pc EXCEPT ![FFP] = "write"]
    /\ UNCHANGED <<disk, disk0, loc, hist, drawn, ncoll, runs>>

\* lines 96-97
FFP_Write ==
    /\ pc[FFP] = "write"
    /\ WriteFile(FFP)
    /\ pc' = [pc EXCEPT ![FFP] = "done"]
    /\ UNCHANGED <<disk0, content, loc, drawn, ncoll, runs>>

(***************************************************************************)
(* Runs of fix_file_paths.py.  The manifests are four-way consistent: each *)
(* entry has its record in both sections and its line in both lists.       *)
(***************************************************************************)
ResultViewEntry == Entry("ResultView.swift", "A6FF82712EDE3C01008330C9",
                         "A6FF82722EDE3C01008330C9", FALSE)
TabbedView(full) == Entry("AnalysisResultsTabbedView.swift", "A6FF82812EDE3C55008330C9",
                          "A6FF82822EDE3C55008330C9", full)

SummaryTab == Entry("AnalysisSummaryTab.swift", "A6FF82832EDE3C55008330C9",
                    "A6FF82842EDE3C55008330C9", FALSE)

\* the entries of a manifest, chosen by flags
FFPEntries(geo, res, tab, sum) ==
    <<RewardCard>>
    \o (IF geo THEN <<GeoGameByName>> ELSE <<>>)
    \o (IF res THEN <<ResultViewEntry>> ELSE <<>>)
    \o (CASE tab = "short" -> <<TabbedView(FALSE)>>
          [] tab = "long" -> <<TabbedView(TRUE)>>
          [] tab = "twice" -> <<TabbedView(FALSE), TabbedView(FALSE)>>
          [] OTHER -> <<>>)
    \o (IF sum THEN <<SummaryTab>> ELSE <<>>)

\* a line of other text that holds the identifier of GeoGameView.swift's record
GeoGameNote == Line(TXT(GeoGameByName.ref, " is not on disk"))

FFPManifests ==
    {Manifest("all", FFPEntries(geo, res, tab, sum)) \o (IF note THEN GeoGameNote ELSE <<>>) :
        geo \in BOOLEAN, res \in BOOLEAN, tab \in {"none", "short", "long", "twice"},
        sum \in BOOLEAN, note \in BOOLEAN}

InitFFP == InitWith(FFPManifests, {FFP})

NextFFP ==
    \/ FFP_Read
    \/ FFP_Remove
    \/ FFP_FixPaths
    \/ FFP_Write

\* one run of fix_file_paths.py
SpecFFP == InitFFP /\ [][NextFFP]_vars

\* every file of the manifest has one record in each section and one line in
\* each list, and the lists name nothing else
FourWayConsistent(text) ==
    /\ \A j \in 1..Len(text) :
          /\ text[j].k = "SF" =>
                \E i \in 1..Len(text) : text[i].k = "BF" /\ text[i].id = text[j].id
          /\ text[j].k = "CH" =>
                \E i \in 1..Len(text) : text[i].k = "FR" /\ text[i].id = text[j].id
          /\ text[j].k = "BF" =>
                /\ \E i \in 1..Len(text) : text[i].k = "FR" /\ text[i].id = text[j].ref
                /\ \E i \in 1..Len(text) : text[i].k = "SF" /\ text[i].id = text[j].id
          /\ text[j].k = "FR" =>
                /\ \E i \in 1..Len(text) : text[i].k = "CH" /\ text[i].id = text[j].id
                /\ \E i \in 1..Len(text) : text[i].k = "BF" /\ text[i].ref = text[j].id

\* C5 (as claimed): after the removal pass of fix_file_paths on a four-way
\* consistent manifest, every identifier in the Sources files list has a
\* PBXBuildFile record, every identifier in a children list has a
\* PBXFileReference record, and no line mentions a removed file.
C5_IntegrityAfterRemoval ==
    (FourWayConsistent(disk0) /\ pc[FFP] \in {"fix", "write", "done"}) =>
        LET text == content[FFP]
        IN  /\ \A j \in 1..Len(text) :
                  /\ text[j].k = "SF" =>
                        \E i \in 1..Len(text) : text[i].k = "BF" /\ text[i].id = text[j].id
                  /\ text[j].k = "CH" =>
                        \E i \in 1..Len(text) : text[i].k = "FR" /\ text[i].id = text[j].id
            /\ \A i \in 1..Len(files_to_remove) : ~Mentions(text, files_to_remove[i])

(***************************************************************************)
(* remove_old_analysis_files.py                                            *)
(***************************************************************************)
ROA == "remove_old_analysis_files"

\* lines 11-20
old_files == <<"AnalysisBreakdownTab.swift", "AnalysisCompareTab.swift",
               "AnalysisComponents.swift", "AnalysisDetailsTab.swift",
               "AnalysisResultsSimpleView.swift", "AnalysisResultsView.swift",
               "BillGaugeView.swift", "MetricCardView.swift">>

\* f.readlines(): the lines of a text, each with its line break (the last
\* line has none when the text does not end in one)
ReadLines(text) ==
    LET ends == {p \in 1..Len(text) : text[p].k = "NL" \/ p = Len(text)}
        EndOf(k) == CHOOSE e \in ends : Cardinality({j \in ends : j <= e}) = k
    IN  [k \in 1..Cardinality(ends) |->
            SubSeq(text, IF k = 1 THEN 1 ELSE EndOf(k - 1) + 1, EndOf(k))]

\* re.search(r'([A-F0-9]{24})', line): the first identifier of the line, or
\* "" when it has none
FirstId(line) ==
    LET S == {j \in 1..Len(line) : line[j].id # "" \/ line[j].ref # ""}
        t == line[Min(S)]
    IN  IF S = {} THEN "" ELSE IF t.id # "" THEN t.id ELSE t.ref

\* line 32 for a test that looks at PBXFileReference records only
ROA_NamesOldFileRecord(line) ==
    \E j \in 1..Len(line) :
        line[j].k = "FR" /\ \E i \in 1..Len(old_files) : HasComment(line[j], old_files[i])

\* f'/* {filename} */' in line, for some filename of old_files
ROA_NamesOldFile(line) ==
    \E j \in 1..Len(line) : \E i \in 1..Len(old_files) : HasComment(line[j], old_files[i])

\* lines 46-55 for a filter that looks at the records of the two sections only
RECURSIVE ROA_ScanRecordsOnly(_, _, _, _)
ROA_ScanRecordsOnly(lines, uuids, new_lines, removed) ==
    IF lines = <<>> THEN [new_lines |-> new_lines, removed |-> removed]
    ELSE IF LineHasAnyId(Head(lines), uuids) /\ Head(lines)[1].k \in {"FR", "BF"}
         THEN ROA_ScanRecordsOnly(Tail(lines), uuids, new_lines, removed + 1)
         ELSE ROA_ScanRecordsOnly(Tail(lines), uuids, Append(new_lines, Head(lines)), removed)

\* lines 43-55: the loop over the lines
RECURSIVE ROA_Scan(_, _, _, _)
ROA_Scan(lines, uuids, new_lines, removed) ==
    IF lines = <<>> THEN [new_lines |-> new_lines, removed |-> removed]
    ELSE IF LineHasAnyId(Head(lines), uuids)
         THEN ROA_Scan(Tail(lines), uuids, new_lines, removed + 1)
         ELSE ROA_Scan(Tail(lines), uuids, Append(new_lines, Head(lines)), removed)

\* lines 23-24
ROA_Read ==
    /\ pc[ROA] = "start"
    /\ ReadFile(ROA)
    /\ pc' = [pc EXCEPT ![ROA] = "collect"]
    /\ loc' = [loc EXCEPT ![ROA] =
                 [lines |-> ReadLines(disk), uuids_to_remove |-> {}, removed |-> 0]]
    /\ runs' = [runs EXCEPT ![ROA] = @ + 1]
    /\ UNCHANGED <<disk, disk0, drawn, ncoll>>

\* lines 27-38
ROA_Collect ==
    /\ pc[ROA] = "collect"
    /\ LET lines == loc[ROA].lines
       IN  loc' = [loc EXCEPT ![ROA].uuids_to_remove =
                      {FirstId(lines[i]) :
                          i \in {j \in 1..Len(lines) : ROA_NamesOldFile(lines[j])}} \ {""}]
    /\ pc' = [pc EXCEPT ![ROA] = "filter"]
    /\ UNCHANGED <<disk, disk0, content, hist, drawn, ncoll, runs>>

\* lines 43-55
ROA_Filter ==
    /\ pc[ROA] = "filter"
    /\ LET r == ROA_Scan(loc[ROA].lines, loc[ROA].uuids_to_remove, <<>>, 0)
       IN  /\ loc' = [loc EXCEPT ![ROA].removed = r.removed]
           /\ content' = [content EXCEPT ![ROA] = Join(r.new_lines)]
    /\ pc' = [pc EXCEPT ![ROA] = "write"]
    /\ UNCHANGED <<disk, disk0, hist, drawn, ncoll, runs>>

\* lines 58-59: f.writelines(new_lines)
ROA_Write ==
    /\ pc[ROA] = "write"
    /\ WriteFile(ROA)
    /\ pc' = [pc EXCEPT ![ROA] = "done"]
    /\ UNCHANGED <<disk0, content, loc, drawn, ncoll, runs>>

(***************************************************************************)
(* Runs of remove_old_analysis_files.py.                                   *)
(***************************************************************************)
AnalysisComponents == Entry("AnalysisComponents.swift", "A6FF82912EDE3D02008330C9",
                            "A6FF82922EDE3D02008330C9", FALSE)
BillGaugeView == Entry("BillGaugeView.swift", "A6FF82A12EDE3D77008330C9",
                       "A6FF82A22EDE3D77008330C9", FALSE)

\* a text without its last line break
WithoutLastBreak(text) == SubSeq(text, 1, Len(text) - 1)

ROAManifests ==
    {LET ents == <<RewardCard>> \o (IF ac THEN <<AnalysisComponents>> ELSE <<>>)
                 \o (IF bg THEN <<BillGaugeView>> ELSE <<>>)
         text == Manifest("all", ents)
                 \o (CASE note = "ref" -> Line(TXT(AnalysisComponents.ref, " was moved"))
                       [] note = "build" -> Line(TXT(AnalysisComponents.build, " was moved"))
                       [] OTHER -> <<>>)
     IN  IF brk THEN text ELSE WithoutLastBreak(text) :
        ac \in BOOLEAN, bg \in BOOLEAN, note \in {"none", "ref", "build"}, brk \in BOOLEAN}

InitROA == InitWith(ROAManifests, {ROA})

NextROA ==
    \/ ROA_Read
    \/ ROA_Collect
    \/ ROA_Filter
    \/ ROA_Write

\* one run of remove_old_analysis_files.py
SpecROA == InitROA /\ [][NextROA]_vars

\* C9: when remove_old_analysis_files has written the file, the file is the
\* input's lines that hold none of the collected identifiers, in their
\* order; no line of any section that holds one is left; and `removed` is
\* the number of input lines that were dropped.
C9_LineFilterDeletion ==
    pc[ROA] = "done" =>
        LET lines0 == ReadLines(disk0)
            uuids == loc[ROA].uuids_to_remove
            Keep(line) == \A j \in 1..Len(line) : \A u \in uuids : ~HasId(line[j], u)
        IN  /\ disk = Join(SelectSeq(lines0, Keep))
            /\ \A j \in 1..Len(disk) : \A u \in uuids : ~HasId(disk[j], u)
            /\ loc[ROA].removed = Cardinality({i \in 1..Len(lines0) : ~Keep(lines0[i])})

\* a run that dropped records, list lines and a line of other text, and kept
\* the rest
C9_Witness ==
    /\ pc[ROA] = "done"
    /\ loc[ROA].removed >= 5
    /\ \E j \in 1..Len(disk0) : disk0[j].k = "TXT" /\ disk0[j].id \in loc[ROA].uuids_to_remove
    /\ \E j \in 1..Len(disk0) : disk0[j].k = "SF" /\ disk0[j].id \in loc[ROA].uuids_to_remove
    /\ \E j \in 1..Len(disk) : disk[j].k = "BF"

(***************************************************************************)
(* add_rewards_hub_view.py                                                 *)
(***************************************************************************)
HUB == "add_rewards_hub_view"

\* line 10
hub_filename == "RewardsHubView.swift"

\* line 30: re.search(r'([A-F0-9]{24}) /\* Views \*/ = \{[^}]+isa = PBXGroup;
\* [^}]+children = \([^)]+RewardCard\.swift[^}]+\};', content).  The match
\* starts at the first header of a group named Views that has, before the
\* next "}", "isa = PBXGroup;" and then "children = (", and after that, with
\* no ")" in between, the name RewardCard.swift, and a "};" somewhere behind
\* it.  Each class is greedy: the last "children = (" and the last
\* RewardCard.swift that give a match are taken; the match ends at the first
\* "};" behind that name.  [start, end] in token offsets, start = -1: no match
HUB_ViewsMatch(text) ==
    LET n == Len(text)
        Closes(r) == {x \in r..(n - 1) : HasCloseBrace(text[x + 1])}
        Names(c) == {r \in (c + 1)..(n - 1) :
                        /\ HasName(text[r + 1], "RewardCard.swift")
                        /\ \A x \in (c + 1)..(r - 1) : text[x + 1].k # "RP"
                        /\ Closes(r) # {}}
        Opens(p) == {c \in (p + 1)..(NextCloseBrace(text, p + 1) - 1) :
                        /\ text[c + 1].k = "CO"
                        /\ \E a \in (p + 1)..(c - 1) : text[a + 1].k = "ISAG"
                        /\ Names(c) # {}}
        S == {p \in 0..(n - 1) :
                 text[p + 1].k = "GH" /\ text[p + 1].name = "Views" /\ Opens(p) # {}}
        p0 == Min(S)
    IN  IF S = {} THEN [start |-> -1, end |-> -1]
        ELSE [start |-> p0, end |-> Min(Closes(Max(Names(Max(Opens(p0))))))]

\* lines 36-42: group_start_in_content + group_text.rfind(')'), or -1 when
\* the matched text has no ")"
HUB_ChildrenEnd(text, m) ==
    LET S == {x \in m.start..m.end : text[x + 1].k = "RP"}
    IN  IF S = {} THEN -1 ELSE Max(S)

\* lines 47-54: re.search(r'isa = PBXSourcesBuildPhase;[^}]+files = \([^)]+\);',
\* content): match.start() + files_text.rfind(')'), the offset of the ")"
\* that ends the match; -1: no match
HUB_SourcesParen(text) ==
    LET n == Len(text)
        Close(c) == LET R == {x \in (c + 1)..(n - 1) : text[x + 1].k = "RP"}
                    IN  IF R = {} THEN -1 ELSE Min(R)
        Opens(p) == {c \in (p + 1)..(NextCloseBrace(text, p + 1) - 1) :
                        /\ text[c + 1].k = "FO"
                        /\ Close(c) > c + 1
                        /\ Close(c) + 2 <= n
                        /\ text[Close(c) + 2].k = "SEMI"}
        S == {p \in 0..(n - 1) : text[p + 1].k = "ISAS" /\ Opens(p) # {}}
    IN  IF S = {} THEN -1 ELSE Close(Max(Opens(Min(S))))

\* lines 6-7
HUB_Read ==
    /\ pc[HUB] = "start"
    /\ ReadFile(HUB)
    /\ pc' = [pc EXCEPT ![HUB] = "uuids"]
    /\ loc' = [loc EXCEPT ![HUB] = [build_uuid |-> "", ref_uuid |-> "", entries |-> {}]]
    /\ runs' = [runs EXCEPT ![HUB] = @ + 1]
    /\ UNCHANGED <<disk, disk0, drawn, ncoll>>

\* lines 11-12
HUB_Uuids ==
    /\ pc[HUB] = "uuids"
    /\ \E build_uuid \in generate_uuid(InUse, ncoll) :
       \E ref_uuid \in generate_uuid(InUse \cup {build_uuid},
                                     Collided(InUse, ncoll, build_uuid)) :
          /\ loc' = [loc EXCEPT ![HUB].build_uuid = build_uuid, ![HUB].ref_uuid = ref_uuid]
          /\ drawn' = drawn \cup {build_uuid, ref_uuid}
          /\ ncoll' = Collided(InUse \cup {build_uuid},
                               Collided(InUse, ncoll, build_uuid), ref_uuid)
    /\ pc' = [pc EXCEPT ![HUB] = "insert"]
    /\ UNCHANGED <<disk, disk0, content, hist, runs>>

\* lines 14-56: the four insertions, each where its anchor is found; without
\* the Views group the script ends at line 33 and nothing is written
HUB_Insert ==
    /\ pc[HUB] = "insert"
    /\ LET l == loc[HUB]
           build == Line(BF(l.build_uuid, l.ref_uuid, hub_filename))
           ref == Line(FR(l.ref_uuid, hub_filename))
           child == Line(CH(l.ref_uuid, hub_filename))
           source == Line(SF(l.build_uuid, hub_filename))
           b == SearchMarkerLineEnd(content[HUB], "BeginBF")
           c1 == IF b # -1 THEN Splice(content[HUB], b, build) ELSE content[HUB]
           f == SearchMarkerLineEnd(c1, "BeginFR")
           c2 == IF f # -1 THEN Splice(c1, f, ref) ELSE c1
           views_group_match == HUB_ViewsMatch(c2)
           g == HUB_ChildrenEnd(c2, views_group_match)
           c3 == IF g # -1 THEN Splice(c2, g, child) ELSE c2
           s == HUB_SourcesParen(c3)
           c4 == IF s # -1 THEN Splice(c3, s, source) ELSE c3
       IN  IF views_group_match.start = -1
           THEN /\ content' = [content EXCEPT ![HUB] = c2]
                /\ loc' = [loc EXCEPT ![HUB].entries =
                             (IF b # -1 THEN {build[1]} ELSE {})
                             \cup (IF f # -1 THEN {ref[1]} ELSE {})]
                /\ pc' = [pc EXCEPT ![HUB] = "exit"]
           ELSE /\ content' = [content EXCEPT ![HUB] = c4]
                /\ loc' = [loc EXCEPT ![HUB].entries =
                             (IF b # -1 THEN {build[1]} ELSE {})
                             \cup (IF f # -1 THEN {ref[1]} ELSE {})
                             \cup (IF g # -1 THEN {child[1]} ELSE {})
                             \cup (IF s # -1 THEN {source[1]} ELSE {})]
                /\ pc' = [pc EXCEPT ![HUB] = "write"]
    /\ UNCHANGED <<disk, disk0, hist, drawn, ncoll, runs>>

\* lines 59-60
HUB_Write ==
    /\ pc[HUB] = "write"
    /\ WriteFile(HUB)
    /\ pc' = [pc EXCEPT ![HUB] = "done"]
    /\ UNCHANGED <<disk0, content, loc, drawn, ncoll, runs>>

NextHUB ==
    \/ HUB_Read
    \/ HUB_Uuids
    \/ HUB_Insert
    \/ HUB_Write

(***************************************************************************)
(* add_missing_files.py and add_rewards_hub_view.py started together on    *)
(* the same project file: neither takes a lock, so their steps interleave  *)
(* in any order.  What identifier collisions do is the matter of the runs  *)
(* of one script; here every identifier drawn is a fresh one.              *)
(***************************************************************************)
RaceManifests ==
    {Manifest("all", ents) :
        ents \in {<<RewardCard>>, <<RewardCard, GeoGameByPath>>, <<GeoGameByName>>}}

InitRace == InitFrom(RaceManifests, {AMF, HUB}, MaxCollisions)

NextRace ==
    \/ AMF_Read
    \/ AMF_Plan
    \/ AMF_InsertBuildFiles
    \/ AMF_InsertFileRefs
    \/ AMF_InsertSources
    \/ AMF_Write
    \/ HUB_Read
    \/ HUB_Uuids
    \/ HUB_Insert
    \/ HUB_Write

SpecRace == InitRace /\ [][NextRace]_vars

\* the tokens a script has inserted into its copy of the text
Inserted(s) ==
    IF s = HUB THEN loc[HUB].entries
    ELSE {loc[AMF].build_entries[i] : i \in 1..Len(loc[AMF].build_entries)}
         \cup {loc[AMF].file_entries[i].entry : i \in 1..Len(loc[AMF].file_entries)}
         \cup {loc[AMF].build_phase_entries[i] : i \in 1..Len(loc[AMF].build_phase_entries)}

\* the token occurs in the text
Occurs(t, text) == \E j \in 1..Len(text) : text[j] = t

\* both scripts have read the file before either has written it, and both
\* have written it
BothReadThenBothWrote ==
    /\ Len(hist) = 4
    /\ hist[1].op = "read" /\ hist[2].op = "read"
    /\ hist[3].op = "write" /\ hist[4].op = "write"

\* C7: when both scripts read the file before either writes it, the file
\* ends up as the last writer's text: it holds the last writer's entries
\* and none that only the first writer inserted.
C7_LastWriterWins ==
    BothReadThenBothWrote =>
        /\ disk = content[hist[4].s]
        /\ hist[1].text = disk0 /\ hist[2].text = disk0
        /\ \A t \in Inserted(hist[4].s) : Occurs(t, disk)
        /\ \A t \in Inserted(hist[3].s) :
              Occurs(t, disk) => (t \in Inserted(hist[4].s) \/ Occurs(t, disk0))

\* the interleaving has happened and the first writer's entries are gone
C7_Witness ==
    /\ BothReadThenBothWrote
    /\ Inserted(hist[3].s) # {}
    /\ \A t \in Inserted(hist[3].s) : ~Occurs(t, disk)
    /\ \A t \in Inserted(hist[3].s) : Occurs(t, hist[3].text)
    /\ disk # hist[3].text

(***************************************************************************)
(* One run of a script that edits the manifest: add_missing_files.py or    *)
(* add_phase1_components.py, on any manifest of its family.                *)
(***************************************************************************)
InitSingleRun == InitAMF \/ InitP1

NextSingleRun ==
    \/ AMF_Read
    \/ AMF_Plan
    \/ AMF_InsertBuildFiles
    \/ AMF_InsertFileRefs
    \/ AMF_InsertSources
    \/ AMF_Write
    \/ P1_Read
    \/ P1_Uuids
    \/ P1_InsertFileRefs
    \/ P1_InsertBuildFiles
    \/ P1_InsertGroup
    \/ P1_InsertSources
    \/ P1_Write

SpecSingleRun == InitSingleRun /\ [][NextSingleRun]_vars

\* the positions in hist of the file operations of one kind
FileOps(op) == {i \in 1..Len(hist) : hist[i].op = op}

\* C10: a run reads the project file once, before anything else, and writes
\* it at most once, as its last step; until that write the file is as it
\* was, and from then on it is the text with all the run's insertions.
C10_SingleReadSingleWrite ==
    \A s \in {AMF, P1} : pc[s] # "off" =>
        /\ FileOps("read") = (IF pc[s] = "start" THEN {} ELSE {1})
        /\ FileOps("write") \subseteq {2}
        /\ \A i \in 1..Len(hist) : hist[i].s = s
        /\ FileOps("write") = {} => disk = disk0
        /\ FileOps("write") # {} =>
              /\ pc[s] = "done"
              /\ disk = content[s]
              /\ hist[2].text = content[s]
              /\ hist[1].text = disk0

\* add_phase1_components has made all four insertions and written the file
C10_Witness ==
    /\ pc[P1] = "done"
    /\ FileOps("write") = {2}
    /\ \A i \in 1..Len(files_to_add) :
          /\ CountKN(disk, "FR", files_to_add[i]) = 1 + CountKN(disk0, "FR", files_to_add[i])
          /\ CountKN(disk, "BF", files_to_add[i]) = 1 + CountKN(disk0, "BF", files_to_add[i])
          /\ CountKN(disk, "CH", files_to_add[i]) = 1 + CountKN(disk0, "CH", files_to_add[i])
          /\ CountKN(disk, "SF", files_to_add[i]) = 1 + CountKN(disk0, "SF", files_to_add[i])

(***************************************************************************)
(* remove_white_background.py.  The file is an image here: its mode, its   *)
(* size and its pixels, row by row.  A pixel is [r, g, b, a], or [r, g, b] *)
(* in an image of mode RGB; a channel is a number of 0..255.               *)
(***************************************************************************)
RWB == "remove_white_background"

\* line 8: threshold=240
default_threshold == 240

\* the thresholds the function is called with
Thresholds == {default_threshold, 128}

\* the pixels the images are made of
Palette ==
    {[r |-> 255, g |-> 255, b |-> 255, a |-> 255], [r |-> 255, g |-> 255, b |-> 255, a |-> 0],
     [r |-> 240, g |-> 240, b |-> 240, a |-> 255], [r |-> 241, g |-> 241, b |-> 241, a |-> 128],
     [r |-> 240, g |-> 239, b |-> 255, a |-> 255], [r |-> 239, g |-> 239, b |-> 239, a |-> 255],
     [r |-> 10, g |-> 20, b |-> 30, a |-> 255], [r |-> 0, g |-> 0, b |-> 0, a |-> 0]}

\* the sizes (width, height) of the images, and the images
Sizes == {wh \in (1..MaxPixels) \X (1..MaxPixels) : wh[1] * wh[2] <= MaxPixels}
Images ==
    UNION {[mode : {"RGBA"}, width : {wh[1]}, height : {wh[2]},
            px : [1..(wh[1] * wh[2]) -> Palette]] : wh \in Sizes}
    \cup UNION {[mode : {"RGB"}, width : {wh[1]}, height : {wh[2]},
                 px : [1..(wh[1] * wh[2]) -> {[r |-> p.r, g |-> p.g, b |-> p.b] : p \in Palette}]] :
                   wh \in Sizes}

\* line 21: img.convert("RGBA"); a pixel without alpha becomes opaque
ConvertRGBA(img) ==
    IF img.mode = "RGBA" THEN img
    ELSE [img EXCEPT !.mode = "RGBA",
                     !.px = [i \in DOMAIN img.px |->
                                [r |-> img.px[i].r, g |-> img.px[i].g, b |-> img.px[i].b,
                                 a |-> 255]]]

\* pixels[x, y] is the pixel of column x in row y
PixelIndex(img, x, y) == y * img.width + x + 1

\* the test of a threshold that a channel has to exceed
IsWhiteAbove(p, threshold) == p.r > threshold /\ p.g > threshold /\ p.b > threshold

\* line 35: r >= threshold and g >= threshold and b >= threshold
IsWhite(p, threshold) == p.r >= threshold /\ p.g >= threshold /\ p.b >= threshold

\* lines 18-27
RWB_Open ==
    /\ pc[RWB] = "start"
    /\ \E threshold \in Thresholds :
          loc' = [loc EXCEPT ![RWB] = [x |-> 0, y |-> 0, threshold |-> threshold]]
    /\ content' = [content EXCEPT ![RWB] = ConvertRGBA(disk)]
    /\ hist' = Append(hist, [s |-> RWB, op |-> "read", text |-> disk])
    /\ pc' = [pc EXCEPT ![RWB] = "loop"]
    /\ runs' = [runs EXCEPT ![RWB] = @ + 1]
    /\ UNCHANGED <<disk, disk0, drawn, ncoll>>

\* lines 30-36: one pixel
RWB_Pixel ==
    /\ pc[RWB] = "loop"
    /\ loc[RWB].y < content[RWB].height
    /\ LET l == loc[RWB]
           i == PixelIndex(content[RWB], l.x, l.y)
           p == content[RWB].px[i]
       IN  /\ content' = [content EXCEPT ![RWB].px[i] =
                             IF IsWhite(p, l.threshold)
                             THEN [r |-> p.r, g |-> p.g, b |-> p.b, a |-> 0] ELSE p]
           /\ loc' = [loc EXCEPT ![RWB].x = IF l.x + 1 < content[RWB].width THEN l.x + 1 ELSE 0,
                                 ![RWB].y = IF l.x + 1 < content[RWB].width THEN l.y ELSE l.y + 1]
    /\ UNCHANGED <<disk, disk0, pc, hist, drawn, ncoll, runs>>

\* lines 38-40
RWB_Save ==
    /\ pc[RWB] = "loop"
    /\ loc[RWB].y >= content[RWB].height
    /\ WriteFile(RWB)
    /\ pc' = [pc EXCEPT ![RWB] = "done"]
    /\ UNCHANGED <<disk0, content, loc, drawn, ncoll, runs>>

InitRWB == InitWith(Images, {RWB})

NextRWB ==
    \/ RWB_Open
    \/ RWB_Pixel
    \/ RWB_Save

\* one call of remove_white_background
SpecRWB == InitRWB /\ [][NextRWB]_vars

\* C11 (as claimed): in the saved image, a pixel's alpha is 0 exactly when
\* its R, G and B all exceed the threshold; every other pixel has the alpha
\* it had, and every pixel has the R, G and B it had.
C11_AlphaZeroIffAboveThreshold ==
    pc[RWB] = "done" =>
        \A i \in DOMAIN disk.px :
            LET p0 == ConvertRGBA(disk0).px[i]
                p == disk.px[i]
            IN  /\ p.a = 0 <=> IsWhiteAbove(p0, loc[RWB].threshold)
                /\ ~IsWhiteAbove(p0, loc[RWB].threshold) => p.a = p0.a
                /\ p.r = p0.r /\ p.g = p0.g /\ p.b = p0.b

\* C11 (amended): in the saved image, a pixel whose R, G and B are all at
\* least the threshold has alpha 0; every other pixel has the alpha it had
\* (so an alpha that was 0 stays 0), and every pixel has the R, G and B it
\* had.
C11_AlphaZeroAtOrAboveThreshold ==
    pc[RWB] = "done" =>
        /\ DOMAIN disk.px = DOMAIN disk0.px
        /\ disk.width = disk0.width /\ disk.height = disk0.height
        /\ \A i \in DOMAIN disk.px :
              LET p0 == ConvertRGBA(disk0).px[i]
                  p == disk.px[i]
              IN  /\ p.a = (IF p0.r >= loc[RWB].threshold /\ p0.g >= loc[RWB].threshold
                               /\ p0.b >= loc[RWB].threshold THEN 0 ELSE p0.a)
                  /\ p.r = p0.r /\ p.g = p0.g /\ p.b = p0.b

\* a saved image with a pixel exactly at the default threshold that was made
\* transparent, and a pixel below it that was left as it was
C11_Witness ==
    /\ pc[RWB] = "done"
    /\ loc[RWB].threshold = default_threshold
    /\ \E i \in DOMAIN disk.px :
          /\ ConvertRGBA(disk0).px[i] = [r |-> 240, g |-> 240, b |-> 240, a |-> 255]
          /\ disk.px[i].a = 0
    /\ \E i \in DOMAIN disk.px :
          /\ ConvertRGBA(disk0).px[i].g = 239
          /\ disk.px[i].a = 255

(***************************************************************************)
(* add_missing_files.py when an anchor is missing.                         *)
(***************************************************************************)
\* one of the anchors of lines 85, 99, 111 and 117 is not in the text
AMF_AnchorMissing(text) ==
    \/ FindKind(text, "BeginBF", 0) = -1
    \/ FindKind(text, "BeginFR", 0) = -1
    \/ FindKind(text, "BeginSBP", 0) = -1
    \/ FindKind(text, "FO", FindKind(text, "BeginSBP", 0)) = -1

\* C12: when the manifest lacks the PBXBuildFile begin marker, the
\* PBXFileReference begin marker, the PBXSourcesBuildPhase begin marker or
\* the "files = (" after it, add_missing_files never writes the file: the
\* file stays as it was, whatever was inserted into the text in memory.
C12_UntouchedOnAnchorFailure ==
    AMF_AnchorMissing(disk0) =>
        /\ disk = disk0
        /\ ~Wrote(AMF)
        /\ pc[AMF] # "write"

\* a run that has ended without a write after it had inserted records into
\* its text
C12_Witness ==
    /\ AMF_AnchorMissing(disk0)
    /\ pc[AMF] = "done"
    /\ loc[AMF].build_entries # <<>>
    /\ \A i \in 1..Len(loc[AMF].build_entries) :
          \E j \in 1..Len(content[AMF]) : content[AMF][j] = loc[AMF].build_entries[i]
    /\ content[AMF] # disk0
    /\ disk = disk0

(***************************************************************************)
(* The records add_modals_to_project.py inserts.                           *)
(***************************************************************************)
\* how many tokens of kind k in the text start with identifier u
CountKI(text, k, u) == Cardinality({j \in 1..Len(text) : text[j].k = k /\ text[j].id = u})

\* how many PBXBuildFile records of the text have identifier u and fileRef r
CountBF(text, u, r) ==
    Cardinality({j \in 1..Len(text) : text[j].k = "BF" /\ text[j].id = u /\ text[j].ref = r})

\* C13 (as claimed): when all anchors are found, the manifest written by
\* add_modals_to_project has gained, for each of the two files, exactly one
\* PBXFileReference record with the file's ref_uuid, exactly one
\* PBXBuildFile record with its build_uuid and that ref_uuid as fileRef,
\* exactly one children line with the ref_uuid and exactly one Sources line
\* with the build_uuid.
C13_CrossSectionLinkage ==
    (pc[MOD] = "done" /\ MOD_AnchorsFound(disk0)) =>
        \A i \in 1..Len(loc[MOD].file_refs) :
            LET f == loc[MOD].file_refs[i]
            IN  /\ CountKI(disk, "FR", f.ref_uuid) = CountKI(disk0, "FR", f.ref_uuid) + 1
                /\ CountBF(disk, f.build_uuid, f.ref_uuid)
                       = CountBF(disk0, f.build_uuid, f.ref_uuid) + 1
                /\ CountKI(disk, "BF", f.build_uuid) = CountKI(disk0, "BF", f.build_uuid) + 1
                /\ CountKI(disk, "CH", f.ref_uuid) = CountKI(disk0, "CH", f.ref_uuid) + 1
                /\ CountKI(disk, "SF", f.build_uuid) = CountKI(disk0, "SF", f.build_uuid) + 1

(***************************************************************************)
(* The insertion loops of add_missing_files.py.                            *)
(***************************************************************************)
\* a is what is left of b when some of b's tokens are taken out
RECURSIVE IsSubsequence(_, _)
IsSubsequence(a, b) ==
    IF a = <<>> THEN TRUE
    ELSE IF Len(b) < Len(a) THEN FALSE
    ELSE IF Head(a) = Head(b) THEN IsSubsequence(Tail(a), Tail(b))
    ELSE IsSubsequence(a, Tail(b))

\* the position in missing_files of the file of an entry
FileIndex(entry) == CHOOSE i \in 1..Len(missing_files) : missing_files[i] = entry.name

\* C14: after the PBXBuildFile insertion loop of add_missing_files the new
\* entries are consecutive lines right behind the marker line, in the order
\* of missing_files, between the unchanged text up to the marker line and
\* the unchanged text behind it; and no insertion of the run takes a token
\* of the original away.
C14_RunningCursor ==
    /\ pc[AMF] = "refs" =>
          LET p == FindNL(disk0, FindKind(disk0, "BeginBF", 0)) + 1
              new == loc[AMF].build_entries
          IN  /\ content[AMF] = Before(disk0, p) \o Join(WithNL(new)) \o After(disk0, p)
              /\ disk0[p - 1].k = "BeginBF"
              /\ \A i, j \in 1..Len(new) : i < j => FileIndex(new[i]) < FileIndex(new[j])
    /\ pc[AMF] \in {"refs", "sources", "write", "done"} => IsSubsequence(disk0, content[AMF])

\* the loop has inserted two entries behind the marker line
C14_Witness ==
    /\ pc[AMF] = "refs"
    /\ Len(loc[AMF].build_entries) >= 2
    /\ Len(content[AMF]) = Len(disk0) + 2 * Len(loc[AMF].build_entries)

(***************************************************************************)
(* add_ui_redesign_files.py                                                *)
(***************************************************************************)
UI == "add_ui_redesign_files"

\* lines 9-14, each file named by the last component of its path; the model
\* keeps the first NumFiles of them
all_redesign_files == <<"TypographyStyles.swift", "AnimationModifiers.swift",
                        "SeasonThemeBackground.swift", "SectionHeader.swift">>
redesign_files == SubSeq(all_redesign_files, 1, Min({NumFiles, Len(all_redesign_files)}))

\* the file names of the manifests that have a listed file's name as a part
LongerNames == {<<"ViewAnimationModifiers.swift", "AnimationModifiers.swift">>}

\* the test of add_missing_files.py: the file's full path is in the token
PathInToken(t, filename) == HasPath(t, filename)

\* line 34, for one token: filename in content
NameInToken(t, filename) == HasName(t, filename) \/ <<t.name, filename>> \in LongerNames

\* content.find(<the text of a token of kind k>, start), start being the
\* result of an earlier find: a token offset, or -1, which Python takes for
\* the last character
FindFrom(text, k, start) ==
    FindKindFromChar(text, k, IF start = -1 THEN -1 ELSE MatchChar(text, start))

\* lines 22-29
UI_Read ==
    /\ pc[UI] = "start"
    /\ ReadFile(UI)
    /\ loc' = [loc EXCEPT ![UI] = [i |-> 1, skipped |-> {}, file_ref_entries |-> <<>>,
                                   build_file_entries |-> <<>>, build_phase_entries |-> <<>>]]
    /\ pc' = [pc EXCEPT ![UI] = "plan"]
    /\ runs' = [runs EXCEPT ![UI] = @ + 1]
    /\ UNCHANGED <<disk, disk0, drawn, ncoll>>

\* lines 31-53: one iteration of the loop over redesign_files
UI_Plan ==
    /\ pc[UI] = "plan"
    /\ loc[UI].i <= Len(redesign_files)
    /\ LET l == loc[UI]
           filename == redesign_files[l.i]
       IN  IF \E j \in 1..Len(content[UI]) : NameInToken(content[UI][j], filename)
           THEN /\ loc' = [loc EXCEPT ![UI].i = @ + 1, ![UI].skipped = @ \cup {filename}]
                /\ UNCHANGED <<drawn, ncoll>>
           ELSE \E file_ref_id \in generate_uuid(InUse, ncoll) :
                \E build_file_id \in generate_uuid(InUse \cup {file_ref_id},
                                                   Collided(InUse, ncoll, file_ref_id)) :
                  /\ loc' = [loc EXCEPT ![UI] =
                        [i |-> l.i + 1,
                         skipped |-> l.skipped,
                         file_ref_entries |-> Append(l.file_ref_entries,
                             FRfull(file_ref_id, filename)),
                         build_file_entries |-> Append(l.build_file_entries,
                             BF(build_file_id, file_ref_id, filename)),
                         build_phase_entries |-> Append(l.build_phase_entries,
                             SF(build_file_id, filename))]]
                  /\ drawn' = drawn \cup {file_ref_id, build_file_id}
                  /\ ncoll' = Collided(InUse \cup {file_ref_id},
                                       Collided(InUse, ncoll, file_ref_id), build_file_id)
    /\ UNCHANGED <<disk, disk0, pc, content, hist, runs>>

\* lines 55-87: exit(0) when there is nothing to add; else the three
\* insertions, each behind the line break that find() gives, found or not
UI_Insert ==
    /\ pc[UI] = "plan"
    /\ loc[UI].i > Len(redesign_files)
    /\ LET l == loc[UI]
           build_file_pos == FindKind(content[UI], "BeginBF", 0)
           build_file_insert_pos == FindFrom(content[UI], "NL", build_file_pos) + 1
           c1 == InsertEach(content[UI], build_file_insert_pos, WithNL(l.build_file_entries))
           file_ref_pos == FindKind(c1, "BeginFR", 0)
           file_ref_insert_pos == FindFrom(c1, "NL", file_ref_pos) + 1
           c2 == InsertEach(c1, file_ref_insert_pos, WithNL(l.file_ref_entries))
           sources_pos == FindKind(c2, "BeginSBP", 0)
           files_section == FindFrom(c2, "FO", sources_pos)
           sources_insert_pos == FindFrom(c2, "NL", files_section) + 1
           c3 == InsertEach(c2, sources_insert_pos, WithNL(l.build_phase_entries))
       IN  IF l.file_ref_entries = <<>>
           THEN /\ pc' = [pc EXCEPT ![UI] = "done"]
                /\ UNCHANGED content
           ELSE /\ content' = [content EXCEPT ![UI] = c3]
                /\ pc' = [pc EXCEPT ![UI] = "write"]
    /\ UNCHANGED <<disk, disk0, loc, hist, drawn, ncoll, runs>>

\* lines 89-93
UI_Write ==
    /\ pc[UI] = "write"
    /\ WriteFile(UI)
    /\ pc' = [pc EXCEPT ![UI] = "done"]
    /\ UNCHANGED <<disk0, content, loc, drawn, ncoll, runs>>

\* the script is started again
UI_Again ==
    /\ pc[UI] = "done"
    /\ runs[UI] < MaxRuns
    /\ pc' = [pc EXCEPT ![UI] = "start"]
    /\ UNCHANGED <<disk, disk0, content, loc, hist, drawn, ncoll, runs>>

(***************************************************************************)
(* Runs of add_ui_redesign_files.py, up to MaxRuns in a row.  Which        *)
(* identifiers are drawn has no part in what is skipped: every identifier  *)
(* drawn in these runs is a fresh one.                                     *)
(***************************************************************************)
TypographyByName == Entry("TypographyStyles.swift", "A6FF82B12EDE3E10008330C9",
                          "A6FF82B22EDE3E10008330C9", FALSE)
ViewAnimationModifiers == Entry("ViewAnimationModifiers.swift", "A6FF82C12EDE3E20008330C9",
                                "A6FF82C22EDE3E20008330C9", FALSE)

UIManifests ==
    {LET text == Manifest(anch, ents) IN IF brk THEN text ELSE WithoutLastBreak(text) :
        anch \in {"all", "noBeginBF", "noBeginFR", "noBeginSBP", "noFiles"},
        ents \in {<<RewardCard>>, <<RewardCard, TypographyByName>>,
                  <<RewardCard, ViewAnimationModifiers>>},
        brk \in BOOLEAN}

InitUI == InitFrom(UIManifests, {UI}, MaxCollisions)

NextUI ==
    \/ UI_Read
    \/ UI_Plan
    \/ UI_Insert
    \/ UI_Write
    \/ UI_Again

SpecUI == InitUI /\ [][NextUI]_vars

\* the text the run at hand has read
LastRead(s) ==
    hist[Max({i \in 1..Len(hist) : hist[i].s = s /\ hist[i].op = "read"})].text

\* the file name occurs somewhere in the text, as a name or inside a longer one
NameOccurs(text, filename) ==
    \E j \in 1..Len(text) :
        text[j].name # "" /\ (text[j].name = filename \/ <<text[j].name, filename>> \in LongerNames)
        /\ text[j].k \in {"FR", "BF", "CH", "SF", "TXT"}

\* C15: add_ui_redesign_files skips a listed file exactly when the file's
\* name occurs in the text it has read; and a second run on the output of
\* the first adds nothing and leaves the file as it is.
C15_SkipIfPresent ==
    /\ pc[UI] \in {"plan", "write", "done"} =>
          \A i \in 1..(loc[UI].i - 1) :
              redesign_files[i] \in loc[UI].skipped <=> NameOccurs(LastRead(UI), redesign_files[i])
    /\ (runs[UI] >= 2 /\ pc[UI] # "start") =>
          /\ disk = LastRead(UI)
          /\ pc[UI] # "write"
          /\ loc[UI].i > Len(redesign_files) =>
                /\ loc[UI].file_ref_entries = <<>>
                /\ loc[UI].skipped = {redesign_files[i] : i \in 1..Len(redesign_files)}

\* the first run added a file and skipped one whose name is part of a longer
\* name, and the second run has ended
C15_Witness ==
    /\ runs[UI] = 2 /\ pc[UI] = "done"
    /\ disk # disk0
    /\ \E j \in 1..Len(disk0) : disk0[j].name = "ViewAnimationModifiers.swift"
    /\ ~NameOccurs(disk0, "TypographyStyles.swift")
    /\ NameOccurs(disk, "TypographyStyles.swift")

(***************************************************************************)
(* remove_duplicate_files.py.  Every file name of the manifests is a       *)
(* \S+\.swift, and every identifier a \w{24}.                              *)
(***************************************************************************)
RDF == "remove_duplicate_files"

\* line 24, on one line: the first PBXFileReference record of the line, as
\* <<[uuid, filename]>>, or <<>>
RDF_RefMatch(line) ==
    LET S == {j \in 1..Len(line) : line[j].k = "FR"}
    IN  IF S = {} THEN <<>> ELSE <<[uuid |-> line[Min(S)].id, filename |-> line[Min(S)].name]>>

\* line 33, on one line: the first PBXBuildFile record of the line
RDF_BuildMatch(line) ==
    LET S == {j \in 1..Len(line) : line[j].k = "BF"}
    IN  IF S = {} THEN <<>>
        ELSE <<[uuid |-> line[Min(S)].id, filename |-> line[Min(S)].name,
                ref_uuid |-> line[Min(S)].ref]>>

\* lines 22-40: the matches of all lines, in the order of the lines
RECURSIVE RDF_Collect(_, _)
RDF_Collect(lines, kind) ==
    IF lines = <<>> THEN <<>>
    ELSE (IF kind = "FR" THEN RDF_RefMatch(Head(lines)) ELSE RDF_BuildMatch(Head(lines)))
         \o RDF_Collect(Tail(lines), kind)

\* file_refs[filename], build_files[filename]: the matches of one file name
RDF_Of(matches, filename) == SelectSeq(matches, LAMBDA m : m.filename = filename)

\* the choice of the last record instead of the first
RDF_LastUuid(refs) == refs[Len(refs)].uuid

\* line 52: refs[0][0]
RDF_UuidToRemove(refs) == refs[1].uuid

\* lines 44-61
RDF_UuidsToRemove(file_refs, build_files) ==
    UNION {LET refs == RDF_Of(file_refs, filename)
               builds == RDF_Of(build_files, filename)
           IN  IF Len(refs) > 1
               THEN {RDF_UuidToRemove(refs)}
                    \cup {builds[j].uuid : j \in {i \in 1..Len(builds) :
                                                builds[i].ref_uuid = RDF_UuidToRemove(refs)}}
               ELSE {} :
           filename \in {file_refs[i].filename : i \in 1..Len(file_refs)}}

\* lines 13-15
RDF_Read ==
    /\ pc[RDF] = "start"
    /\ ReadFile(RDF)
    /\ loc' = [loc EXCEPT ![RDF] = [lines |-> ReadLines(disk), file_refs |-> <<>>,
                                    build_files |-> <<>>, uuids_to_remove |-> {},
                                    removed_count |-> 0]]
    /\ pc' = [pc EXCEPT ![RDF] = "collect"]
    /\ runs' = [runs EXCEPT ![RDF] = @ + 1]
    /\ UNCHANGED <<disk, disk0, drawn, ncoll>>

\* lines 17-40: the first pass
RDF_FirstPass ==
    /\ pc[RDF] = "collect"
    /\ loc' = [loc EXCEPT ![RDF].file_refs = RDF_Collect(loc[RDF].lines, "FR"),
                          ![RDF].build_files = RDF_Collect(loc[RDF].lines, "BF")]
    /\ pc' = [pc EXCEPT ![RDF] = "decide"]
    /\ UNCHANGED <<disk, disk0, content, hist, drawn, ncoll, runs>>

\* lines 42-61
RDF_Decide ==
    /\ pc[RDF] = "decide"
    /\ loc' = [loc EXCEPT ![RDF].uuids_to_remove =
                  RDF_UuidsToRemove(loc[RDF].file_refs, loc[RDF].build_files)]
    /\ pc' = [pc EXCEPT ![RDF] = "filter"]
    /\ UNCHANGED <<disk, disk0, content, hist, drawn, ncoll, runs>>

\* lines 63-77: the second pass
RDF_SecondPass ==
    /\ pc[RDF] = "filter"
    /\ LET new_lines == LinesWithout(loc[RDF].lines, loc[RDF].uuids_to_remove)
       IN  /\ content' = [content EXCEPT ![RDF] = Join(new_lines)]
           /\ loc' = [loc EXCEPT ![RDF].removed_count = Len(loc[RDF].lines) - Len(new_lines)]
    /\ pc' = [pc EXCEPT ![RDF] = "write"]
    /\ UNCHANGED <<disk, disk0, hist, drawn, ncoll, runs>>

\* lines 79-82
RDF_Write ==
    /\ pc[RDF] = "write"
    /\ WriteFile(RDF)
    /\ pc' = [pc EXCEPT ![RDF] = "done"]
    /\ UNCHANGED <<disk0, content, loc, drawn, ncoll, runs>>

(***************************************************************************)
(* Runs of remove_duplicate_files.py: manifests in which GeoGameView.swift *)
(* and ResultView.swift are in the project once or several times, every    *)
(* copy with identifiers of its own.                                       *)
(***************************************************************************)
CopyRefs == <<"A6FF82612EDE3B44008330C1", "A6FF82612EDE3B44008330C2", "A6FF82612EDE3B44008330C3",
              "A6FF82612EDE3B44008330C4", "A6FF82612EDE3B44008330C5">>
CopyBuilds == <<"A6FF82622EDE3B44008330C1", "A6FF82622EDE3B44008330C2", "A6FF82622EDE3B44008330C3",
                "A6FF82622EDE3B44008330C4", "A6FF82622EDE3B44008330C5">>
ResultRefs == <<"A6FF82712EDE3C01008330C1", "A6FF82712EDE3C01008330C2">>
ResultBuilds == <<"A6FF82722EDE3C01008330C1", "A6FF82722EDE3C01008330C2">>

\* n copies of a file; the first one may carry the full path
Copies(name, refs, builds, n, full) ==
    [i \in 1..n |-> Entry(name, refs[i], builds[i], full /\ i = 1)]

RDFManifests ==
    {LET ents == <<RewardCard>> \o Copies("GeoGameView.swift", CopyRefs, CopyBuilds, n, full)
                 \o Copies("ResultView.swift", ResultRefs, ResultBuilds, m, FALSE)
         text == Manifest("all", ents)
                 \o (IF note THEN Line(TXT(CopyRefs[1], " was added twice")) ELSE <<>>)
     IN  IF brk THEN text ELSE WithoutLastBreak(text) :
        n \in 1..MaxCopies, m \in 0..2, full \in BOOLEAN, note \in BOOLEAN, brk \in BOOLEAN}

InitRDF == InitWith(RDFManifests, {RDF})

NextRDF ==
    \/ RDF_Read
    \/ RDF_FirstPass
    \/ RDF_Decide
    \/ RDF_SecondPass
    \/ RDF_Write

\* one run of remove_duplicate_files.py
SpecRDF == InitRDF /\ [][NextRDF]_vars

\* the PBXFileReference records of a file name, in file order
RecordsOf(text, filename) == SelectSeq(text, LAMBDA t : t.k = "FR" /\ t.name = filename)

\* the file names of the PBXFileReference records
RecordNames(text) == {text[j].name : j \in {i \in 1..Len(text) : text[i].k = "FR"}}

C17_NoDuplicatesLeft ==
    pc[RDF] = "done" => \A f \in RecordNames(disk) : Len(RecordsOf(disk, f)) <= 1

(***************************************************************************)
(* fix_all_duplicates.py and remove_duplicate_refs.py: two scans over the  *)
(* lines of the manifest that drop lines of PBXGroup blocks.               *)
(***************************************************************************)
FAD == "fix_all_duplicates"
RDR == "remove_duplicate_refs"

\* fix_all_duplicates.py line 12
CORRECT_GROUP_UUID == "A6FF822B2EDE3AD4008330C9"

\* fix_all_duplicates.py lines 15-19, remove_duplicate_refs.py lines 16-20
FILE_UUIDS == {"69DEDDF70B61491993119973", "08EE7D81F35342AF942A8987", "51D7BD2B736844D1A8CE5793"}

\* line.strip(): the line without the white space at its ends
Strip(line) == SelectSeq(line, LAMBDA t : t.k \notin {"NL", "IND"})

\* fix_all_duplicates.py line 29
FAD_IsGroupLine(line) ==
    \E j \in 1..Len(line) : \/ line[j].k = "GH" /\ line[j].name = "Components"
                            \/ line[j].k \in {"ISAG", "CO"}

\* fix_all_duplicates.py lines 31-39: the first 24-character word of a line
\* that holds "/* Components */", "" when the loop ends without one
FAD_GroupUuid(line) ==
    IF \E j \in 1..Len(line) : HasComment(line[j], "Components") THEN FirstId(line) ELSE ""

\* fix_all_duplicates.py lines 28-64 for one line, in the state st =
\* [in_group, current_group_uuid, new_lines, removed_count]
FAD_Line(line, st) ==
    LET appended == [st EXCEPT !.new_lines = Append(@, line)]
    IN  IF FAD_IsGroupLine(line)
        THEN IF FAD_GroupUuid(line) # ""
             THEN [appended EXCEPT !.in_group = TRUE, !.current_group_uuid = FAD_GroupUuid(line)]
             ELSE appended
        ELSE IF st.in_group /\ Strip(line) \in {<<END>>, <<RP, SEMI>>}
        THEN IF Strip(line) = <<END>>
             THEN [appended EXCEPT !.in_group = FALSE, !.current_group_uuid = ""]
             ELSE appended
        ELSE IF /\ st.in_group
                /\ st.current_group_uuid # ""
                /\ st.current_group_uuid # CORRECT_GROUP_UUID
                /\ LineHasAnyId(line, FILE_UUIDS)
        THEN [st EXCEPT !.removed_count = @ + 1]
        ELSE appended

\* fix_all_duplicates.py lines 8-9, 22-25
FAD_Read ==
    /\ pc[FAD] = "start"
    /\ ReadFile(FAD)
    /\ loc' = [loc EXCEPT ![FAD] = [lines |-> ReadLines(disk), i |-> 0, in_group |-> FALSE,
                                    current_group_uuid |-> "", new_lines |-> <<>>,
                                    removed_count |-> 0]]
    /\ pc' = [pc EXCEPT ![FAD] = "scan"]
    /\ runs' = [runs EXCEPT ![FAD] = @ + 1]
    /\ UNCHANGED <<disk, disk0, drawn, ncoll>>

\* fix_all_duplicates.py lines 27-64: one turn of the loop, on lines[i]
FAD_Loop ==
    /\ pc[FAD] = "scan"
    /\ loc[FAD].i < Len(loc[FAD].lines)
    /\ LET l == loc[FAD]
           st == FAD_Line(l.lines[l.i + 1],
                          [in_group |-> l.in_group, current_group_uuid |-> l.current_group_uuid,
                           new_lines |-> l.new_lines, removed_count |-> l.removed_count])
       IN  loc' = [loc EXCEPT ![FAD] = [lines |-> l.lines, i |-> l.i + 1,
                                        in_group |-> st.in_group,
                                        current_group_uuid |-> st.current_group_uuid,
                                        new_lines |-> st.new_lines,
                                        removed_count |-> st.removed_count]]
    /\ UNCHANGED <<disk, disk0, pc, content, hist, drawn, ncoll, runs>>

\* the loop has ended: new_lines is what line 68 writes
FAD_LoopEnd ==
    /\ pc[FAD] = "scan"
    /\ loc[FAD].i = Len(loc[FAD].lines)
    /\ content' = [content EXCEPT ![FAD] = Join(loc[FAD].new_lines)]
    /\ pc' = [pc EXCEPT ![FAD] = "write"]
    /\ UNCHANGED <<disk, disk0, loc, hist, drawn, ncoll, runs>>

\* fix_all_duplicates.py lines 67-68
FAD_Write ==
    /\ pc[FAD] = "write"
    /\ WriteFile(FAD)
    /\ pc' = [pc EXCEPT ![FAD] = "done"]
    /\ UNCHANGED <<disk0, content, loc, drawn, ncoll, runs>>

\* remove_duplicate_refs.py line 29: "A4C6E83221EA5E2F1A2183B3 /* Components */"
\* occurs in the line
RDR_IsMarketplaceLine(line) ==
    \E j \in 1..Len(line) :
        /\ line[j].name = "Components"
        /\ \/ line[j].k \in {"GH", "CH", "FR"} /\ line[j].id = ComponentsGroupId
           \/ line[j].k = "BF" /\ line[j].ref = ComponentsGroupId

\* remove_duplicate_refs.py lines 28-53 for one line, in the state st =
\* [in_marketplace_components, new_lines]
RDR_Line(line, st) ==
    LET appended == [st EXCEPT !.new_lines = Append(@, line)]
    IN  IF RDR_IsMarketplaceLine(line)
        THEN [appended EXCEPT !.in_marketplace_components = TRUE]
        ELSE IF st.in_marketplace_components /\ Strip(line) = <<END>>
        THEN [appended EXCEPT !.in_marketplace_components = FALSE]
        ELSE IF st.in_marketplace_components /\ LineHasAnyId(line, FILE_UUIDS)
        THEN st
        ELSE appended

\* remove_duplicate_refs.py lines 8-9, 23-25
RDR_Read ==
    /\ pc[RDR] = "start"
    /\ ReadFile(RDR)
    /\ loc' = [loc EXCEPT ![RDR] = [lines |-> ReadLines(disk), i |-> 0,
                                    in_marketplace_components |-> FALSE, new_lines |-> <<>>]]
    /\ pc' = [pc EXCEPT ![RDR] = "scan"]
    /\ runs' = [runs EXCEPT ![RDR] = @ + 1]
    /\ UNCHANGED <<disk, disk0, drawn, ncoll>>

\* remove_duplicate_refs.py lines 27-53: one turn of the loop, on lines[i]
RDR_Loop ==
    /\ pc[RDR] = "scan"
    /\ loc[RDR].i < Len(loc[RDR].lines)
    /\ LET l == loc[RDR]
           st == RDR_Line(l.lines[l.i + 1],
                          [in_marketplace_components |-> l.in_marketplace_components,
                           new_lines |-> l.new_lines])
       IN  loc' = [loc EXCEPT ![RDR] = [lines |-> l.lines, i |-> l.i + 1,
                                        in_marketplace_components |-> st.in_marketplace_components,
                                        new_lines |-> st.new_lines]]
    /\ UNCHANGED <<disk, disk0, pc, content, hist, drawn, ncoll, runs>>

\* the loop has ended: new_lines is what line 57 writes
RDR_LoopEnd ==
    /\ pc[RDR] = "scan"
    /\ loc[RDR].i = Len(loc[RDR].lines)
    /\ content' = [content EXCEPT ![RDR] = Join(loc[RDR].new_lines)]
    /\ pc' = [pc EXCEPT ![RDR] = "write"]
    /\ UNCHANGED <<disk, disk0, loc, hist, drawn, ncoll, runs>>

\* remove_duplicate_refs.py lines 56-57
RDR_Write ==
    /\ pc[RDR] = "write"
    /\ WriteFile(RDR)
    /\ pc' = [pc EXCEPT ![RDR] = "done"]
    /\ UNCHANGED <<disk0, content, loc, drawn, ncoll, runs>>

(***************************************************************************)
(* Runs of the two scans: manifests with the three files in the Rewards    *)
(* Components group, the first mc of them also in the Marketplace          *)
(* Components group, and possibly one in the Marketplace group itself and  *)
(* one in the Rewards Views group.                                         *)
(***************************************************************************)
MarketplaceGroupId == "A4C6E83021EA5E2F1A2183B3"
RewardsViewsGroupId == "A6FF82292EDE3AD4008330C9"

HUDFiles == <<Entry("ContinuousHealthBar.swift", "69DEDDF70B61491993119973", "3C1E5A7D9B2F4C6E8A0D1F23", FALSE),
              Entry("CompactTopHUD.swift", "08EE7D81F35342AF942A8987", "5E7A9C1D3F2B4E6A8C0D2F45", FALSE),
              Entry("MinimalBottomDeck.swift", "51D7BD2B736844D1A8CE5793", "7A9C1E3F5B2D4A6C8E0F2B67", FALSE)>>

GroupManifests ==
    {LET parent == GroupBlock(MarketplaceGroupId, "Marketplace", TRUE,
                       Line(CH(ComponentsGroupId, "Components"))
                       \o (IF pk THEN CHLines(SubSeq(HUDFiles, 1, 1)) ELSE <<>>))
         views == GroupBlock(RewardsViewsGroupId, "Views", TRUE,
                       Line(CH(CORRECT_GROUP_UUID, "Components"))
                       \o (IF vk THEN CHLines(SubSeq(HUDFiles, 2, 2)) ELSE <<>>))
         marketplace == GroupBlock(ComponentsGroupId, "Components", TRUE,
                       CHLines(<<RewardCard>> \o SubSeq(HUDFiles, 1, mc)))
         rewards == GroupBlock(CORRECT_GROUP_UUID, "Components", TRUE, CHLines(HUDFiles))
         text == BuildFileSection(TRUE, TRUE, <<RewardCard>> \o HUDFiles)
                 \o FileRefSection(TRUE, TRUE, <<RewardCard>> \o HUDFiles)
                 \o (IF first THEN parent \o marketplace ELSE marketplace \o parent)
                 \o views \o rewards
                 \o SourcesSection(TRUE, TRUE, SourcesPhaseId, <<RewardCard>> \o HUDFiles)
     IN  IF brk THEN text ELSE WithoutLastBreak(text) :
        mc \in 0..3, pk \in BOOLEAN, vk \in BOOLEAN, first \in BOOLEAN, brk \in BOOLEAN}

InitFAD == InitWith(GroupManifests, {FAD})

NextFAD ==
    \/ FAD_Read
    \/ FAD_Loop
    \/ FAD_LoopEnd
    \/ FAD_Write

\* one run of fix_all_duplicates.py
SpecFAD == InitFAD /\ [][NextFAD]_vars

InitRDR == InitWith(GroupManifests, {RDR})

NextRDR ==
    \/ RDR_Read
    \/ RDR_Loop
    \/ RDR_LoopEnd
    \/ RDR_Write

\* one run of remove_duplicate_refs.py
SpecRDR == InitRDR /\ [][NextRDR]_vars

\* the identifier of the block that line i lies in (after the header line
\* "{id} /* {name} */ = {" and up to the closing "};"), "" when in none
EnclosingBlock(lines, i) ==
    LET IsHeader(j) == \E m \in 1..Len(lines[j]) : lines[j][m].k = "GH"
        H == {j \in 1..(i - 1) : /\ IsHeader(j)
                                 /\ \A m \in (j + 1)..(i - 1) : Strip(lines[m]) # <<END>>}
    IN  IF H = {} THEN "" ELSE FirstId(lines[Max(H)])

\* the lines of the text whose index is in S, in order
LinesAt(lines, S) ==
    [k \in 1..Cardinality(S) |-> lines[CHOOSE i \in S : Cardinality({j \in S : j <= i}) = k]]

\* the indices of the lines that lie in group CORRECT_GROUP_UUID or in no block
InCorrectOrNoBlock(lines) ==
    {i \in 1..Len(lines) : EnclosingBlock(lines, i) \in {"", CORRECT_GROUP_UUID}}

\* C18 (as claimed): after fix_all_duplicates the only group block that holds
\* a line with one of the three FILE_UUIDS is group A6FF822B2EDE3AD4008330C9;
\* the lines of that group and the lines outside every block are kept, in
\* order; removed_count is the number of lines dropped.
C18_OnlyInCorrectGroup ==
    pc[FAD] = "done" =>
        LET old == ReadLines(disk0)
            new == ReadLines(disk)
        IN  /\ \A i \in 1..Len(new) :
                  LineHasAnyId(new[i], FILE_UUIDS) => EnclosingBlock(new, i) \in {"", CORRECT_GROUP_UUID}
            /\ LinesAt(new, InCorrectOrNoBlock(new)) = LinesAt(old, InCorrectOrNoBlock(old))
            /\ loc[FAD].removed_count = Len(old) - Len(new)

\* C19 (as claimed): remove_duplicate_refs drops the lines with one of the
\* three identifiers that lie between the header of group
\* A4C6E83221EA5E2F1A2183B3 and its closing "};", and writes every other line
\* back unchanged and in order.
C19_OnlyMarketplaceComponents ==
    pc[RDR] = "done" =>
        LET old == ReadLines(disk0)
        IN  ReadLines(disk) = LinesAt(old, {i \in 1..Len(old) :
                                  ~(/\ EnclosingBlock(old, i) = ComponentsGroupId
                                    /\ LineHasAnyId(old[i], FILE_UUIDS))})

(***************************************************************************)
(* Runs of clean_and_fix_project.py on manifests with more build phases    *)
(* than the Sources phase.  uuid4 returns unused identifiers here.         *)
(***************************************************************************)
FrameworksPhaseId == "A6FF81F12EDE3A5F008330C9"
ResourcesPhaseId == "A6FF81EF2EDE3A5F008330C9"

\* a build phase other than Sources, with its 'files = (' list:
\* \t\t{pid} /* {name} */ = { isa = PBX{name}BuildPhase; files = ( ... ); };
BuildPhase(pid, name, lines) ==
    Line(GH(pid, name)) \o Line(T("ISAP")) \o Line(T("FO")) \o lines
    \o <<IND, RP, SEMI, NL>> \o Line(END)

\* StarDisplay.swift under two of the identifiers of files_to_remove
StaleStarDisplay == Entry("StarDisplay.swift", "F1FDD63808364F348FAD6289", "36B5F280B23F41E3A9F9CD00", FALSE)

\* grp: where the components are grouped; stale: an earlier StarDisplay.swift
\* is in the project
CLNManifest(grp, frameworks, resources, stale) ==
    LET ents == <<SeasonCard>> \o (IF stale THEN <<StaleStarDisplay>> ELSE <<>>)
        sub == IF grp = "comp" THEN GroupBlock(ComponentsGroupId, "Components", TRUE, CHLines(ents))
               ELSE <<>>
        top == IF grp = "comp" THEN Line(CH(ComponentsGroupId, "Components")) ELSE CHLines(ents)
    IN  BuildFileSection(TRUE, TRUE, ents)
        \o FileRefSection(TRUE, TRUE, ents)
        \o (IF frameworks THEN BuildPhase(FrameworksPhaseId, "Frameworks", <<>>) ELSE <<>>)
        \o sub \o GroupBlock(ViewsGroupId, "Views", TRUE, top)
        \o (IF resources
            THEN BuildPhase(ResourcesPhaseId, "Resources",
                     Line(TXT("A6FF82052EDE3A60008330C9", " /* Assets.xcassets in Resources */,")))
            ELSE <<>>)
        \o SourcesSection(TRUE, TRUE, SourcesPhaseId, ents)

CLNManifests ==
    {CLNManifest(grp, frameworks, resources, stale) :
        grp \in {"comp", "none"}, frameworks \in BOOLEAN, resources \in BOOLEAN,
        stale \in BOOLEAN}

InitCLN == InitFrom(CLNManifests, {CLN}, MaxCollisions)

\* one run of clean_and_fix_project.py
SpecCLN == InitCLN /\ [][NextCLN]_vars

\* the name of the block a token lies in: that of the last header
\* "{id} /* {name} */ = {" before offset p
BlockNameAt(text, p) ==
    LET H == {q \in 1..p : text[q].k = "GH"}
    IN  IF H = {} THEN "" ELSE text[Max(H)].name

\* C20 (as claimed): after clean_and_fix_project each of the three new build
\* identifiers is in exactly one 'files = (' list, the one of the Sources
\* build phase.
C20_SourcesPhaseOnly ==
    pc[CLN] = "done" =>
        \A j \in 4..6 :
            LET P == {p \in 1..Len(disk) : disk[p].k = "SF" /\ disk[p].id = loc[CLN].ids[j]}
            IN  /\ Cardinality(P) = 1
                /\ \A p \in P : BlockNameAt(disk, p) = "Sources"

\* C21 (as claimed): after clean_and_fix_project each of the three files has
\* exactly one PBXFileReference record, one PBXBuildFile record and one
\* group children entry, also when the manifest held records and children
\* entries of these files before the run.
C21_OneRecordPerSection ==
    pc[CLN] = "done" =>
        \A n \in remove_names :
            /\ CountKN(disk, "FR", n) = 1
            /\ CountKN(disk, "BF", n) = 1
            /\ CountKN(disk, "CH", n) = 1

(***************************************************************************)
(* fix_closing_syntax.py.  Line 27 of the file is the rest of the comment  *)
(* of line 26, on a line of its own and indented by one space: the         *)
(* interpreter rejects the file (IndentationError) before it runs any      *)
(* statement, so a run neither reads nor writes the manifest.              *)
(***************************************************************************)
FCS == "fix_closing_syntax"

\* \t\t\t\t{id} /* {name} */,);  a children entry with the closing of its
\* list on the same line
CHX(id, name) == [T("CHX") EXCEPT !.id = id, !.name = name]

\* "\t\t\t\t", the indentation of a children entry
IND4 == T("IND4")

\* lines 9-41 are not reached: the run ends at line 27
FCS_Run ==
    /\ pc[FCS] = "start"
    /\ pc' = [pc EXCEPT ![FCS] = "failed"]
    /\ runs' = [runs EXCEPT ![FCS] = @ + 1]
    /\ UNCHANGED <<disk, disk0, content, loc, hist, drawn, ncoll>>

(***************************************************************************)
(* Runs of fix_closing_syntax.py: manifests whose Components group lists   *)
(* the last n of the three files; the last entry of the list, the one      *)
(* before it, or both have the closing on their line.                      *)
(***************************************************************************)
\* a children list: entries, the entries with ",);" and, when no entry
\* closes the list, the line "\t\t\t);"
ChildrenWithClosing(ents, malformed) ==
    Join([i \in 1..Len(ents) |->
            Line(IF i \in malformed THEN CHX(ents[i].ref, ents[i].name)
                                    ELSE CH(ents[i].ref, ents[i].name))])
    \o (IF Len(ents) \in malformed THEN <<>> ELSE <<IND, RP, SEMI, NL>>)

FCSManifests ==
    {LET ents == <<RewardCard>> \o SubSeq(HUDFiles, 4 - n, 3)
         text == FileRefSection(TRUE, TRUE, ents)
                 \o (IF views THEN GroupBlock(RewardsViewsGroupId, "Views", TRUE,
                                       Line(CH(CORRECT_GROUP_UUID, "Components")))
                     ELSE <<>>)
                 \o Line(GH(CORRECT_GROUP_UUID, "Components")) \o Line(T("ISAG")) \o Line(T("CO"))
                 \o ChildrenWithClosing(ents, (IF before THEN {Len(ents) - 1} ELSE {})
                                               \cup (IF last THEN {Len(ents)} ELSE {}))
                 \o Line(NAMEATTR("Components")) \o Line(END)
     IN  IF brk THEN text ELSE WithoutLastBreak(text) :
        n \in 0..3, before \in BOOLEAN, last \in BOOLEAN, views \in BOOLEAN,
        brk \in BOOLEAN}

InitFCS == InitWith(FCSManifests, {FCS})

NextFCS == FCS_Run

\* one run of fix_closing_syntax.py
SpecFCS == InitFCS /\ [][NextFCS]_vars

\* the text with every "{entry},);" line split into "{entry}," and a line of
\* the same indentation with ");"
RECURSIVE SplitClosings(_)
SplitClosings(text) ==
    IF text = <<>> THEN <<>>
    ELSE (IF Head(text).k = "CHX"
          THEN <<CH(Head(text).id, Head(text).name), NL, IND4, RP, SEMI>>
          ELSE <<Head(text)>>)
         \o SplitClosings(Tail(text))

\* C22 (as claimed): after a run of fix_closing_syntax no line holds ",);":
\* every such line is split in two, and a file without ",);" is written back
\* as it was.
C22_ClosingsRepaired ==
    pc[FCS] # "start" =>
        /\ \A i \in 1..Len(disk) : disk[i].k # "CHX"
        /\ disk = SplitClosings(disk0)

\* the record of one of the files of `fixes` in its default form
\* (path = {name}; sourceTree = "<group>")
IsDefaultRecord(t) ==
    t.k = "FR" /\ ~t.full /\ \E i \in 1..Len(fixes) : fixes[i] = t.name

\* C23: the path rewrite of fix_file_paths puts, in the place of the default
\* record of each file of `fixes`, the record with the same identifier and
\* file name, the full path and SOURCE_ROOT; every other token of the text,
\* and so every other line and the number of lines, is as before; when no
\* such record is found the text is unchanged.
C23_PathRewriteKeepsIdentity ==
    [][(pc[FFP] = "fix" /\ pc'[FFP] = "write") =>
          /\ Len(content'[FFP]) = Len(content[FFP])
          /\ \A j \in 1..Len(content[FFP]) :
                content'[FFP][j] = IF IsDefaultRecord(content[FFP][j])
                                   THEN FRfull(content[FFP][j].id, content[FFP][j].name)
                                   ELSE content[FFP][j]]_vars

\* the rewrite has put the full path into the records of two files, one of
\* them in the manifest twice
C23_Witness ==
    /\ pc[FFP] = "write"
    /\ Cardinality({j \in 1..Len(disk0) : IsDefaultRecord(disk0[j])}) = 3
    /\ Cardinality({j \in 1..Len(content[FFP]) :
                       content[FFP][j].k = "FR" /\ content[FFP][j].full}) = 3
    /\ \A j \in 1..Len(content[FFP]) : ~IsDefaultRecord(content[FFP][j])

\* the script is started again (python3 remove_old_analysis_files.py, a
\* second time)
ROA_Again ==
    /\ pc[ROA] = "done"
    /\ runs[ROA] < MaxRuns
    /\ pc' = [pc EXCEPT ![ROA] = "start"]
    /\ UNCHANGED <<disk, disk0, content, loc, hist, drawn, ncoll, runs>>

\* runs of remove_old_analysis_files.py, one after the other
SpecROAAgain == InitROA /\ [][NextROA \/ ROA_Again]_vars

\* the token is a record or a list entry of a file of old_files
IsOldFileToken(t) ==
    t.k \in {"FR", "BF", "CH", "SF"} /\ \E i \in 1..Len(old_files) : old_files[i] = t.name

\* the identifiers of the records of the files of old_files
OldFileIds(text) == {text[j].id : j \in {i \in 1..Len(text) : IsOldFileToken(text[i])}}

\* C24: on a four-way consistent manifest, after remove_old_analysis_files
\* no record and no list entry of a file of old_files is left, nothing left
\* holds one of their identifiers, the records and entries of the other
\* files are all there, and a further run finds no identifier and removes no
\* line.
C24_RemovesAllFourAndIdempotent ==
    (FourWayConsistent(disk0) /\ pc[ROA] = "done") =>
        /\ \A j \in 1..Len(disk) : ~IsOldFileToken(disk[j])
        /\ \A j \in 1..Len(disk) : \A u \in OldFileIds(disk0) : ~HasId(disk[j], u)
        /\ FourWayConsistent(disk)
        /\ \A j \in 1..Len(disk0) :
              (disk0[j].k \in {"FR", "BF", "CH", "SF"} /\ ~IsOldFileToken(disk0[j]))
                  => Occurs(disk0[j], disk)
        /\ runs[ROA] >= 2 =>
              /\ loc[ROA].uuids_to_remove = {}
              /\ loc[ROA].removed = 0
              /\ hist[Len(hist)].text = hist[Len(hist) - 1].text

\* a second run has ended on a manifest from which the first run took the
\* four lines of each of two files
C24_Witness ==
    /\ FourWayConsistent(disk0)
    /\ pc[ROA] = "done"
    /\ runs[ROA] = 2
    /\ Cardinality(OldFileIds(disk0)) = 4
    /\ Len(ReadLines(disk0)) - Len(ReadLines(disk)) >= 8

\* the scans a run has made so far
ScansMade == {sc \in {loc[MOD].group_scan, loc[MOD].sources_scan} : sc # <<>>}

\* the scan ended within the text, and at depth 0 exactly when the text has
\* the ")" that balances the list's "("
ScanEndedInBounds(sc) ==
    /\ sc.insert_pos + 1 - sc.start_pos <= Len(sc.text) - sc.start_pos
    /\ sc.paren_depth = 0 <=> ClosersOf(sc.text, sc.start_pos) # {}

\* C25 (as claimed): each balance scan of add_modals_to_project ends within
\* len(content) - start_pos steps, with paren_depth = 0 exactly when a
\* balancing ")" exists, and the entries are inserted only in that case.
C25_ScanTerminatesAndFallsBack ==
    pc[MOD] \notin {"off", "start"} =>
        /\ \A sc \in ScansMade : ScanEndedInBounds(sc[1])
        /\ (pc[MOD] = "sources" /\ loc[MOD].group_scan # <<>>
            /\ ClosersOf(loc[MOD].group_scan[1].text, loc[MOD].group_scan[1].start_pos) = {})
              => content[MOD] = loc[MOD].group_scan[1].text
        /\ (pc[MOD] = "write" /\ loc[MOD].sources_scan # <<>>
            /\ ClosersOf(loc[MOD].sources_scan[1].text, loc[MOD].sources_scan[1].start_pos) = {})
              => content[MOD] = loc[MOD].sources_scan[1].text

====
